---------------------------- MODULE Spec2Model ----------------------------
(***************************************************************************)
(* The test / quiz attempt subsystem of the ED-Tech platform backend:      *)
(* the Test and TestAttempt collections, the request handlers of the       *)
(* tests router (create, update, start, submit-answer, finish) and the     *)
(* model methods they call.  Every await of a handler is one step, so      *)
(* that requests interleave at the storage round trips as they do under    *)
(* the Node event loop.                                                    *)
(***************************************************************************)
EXTENDS Integers, Sequences, FiniteSets, TLC

(***************************************************************************)
(* Bounds of the model.                                                    *)
(***************************************************************************)
\* the clock runs over 0..MaxTime
MaxTime == 2
\* the largest settings.maxAttempts a request body carries
MaxAttemptsInput == 2
\* the largest number of TestAttempt documents the collection holds
MaxDocs == 2
\* the largest points value of a question in a request body
MaxPoints == 2

(***************************************************************************)
(* Optional values (an unset Date, a document that was not found).        *)
(***************************************************************************)
None == << >>
Some(x) == << x >>
IsSet(o) == o # None
Val(o) == o[1]

(***************************************************************************)
(* Principals.  auth loads req.user from the User collection; the role    *)
(* and the verification flag are what the role middlewares read.          *)
(***************************************************************************)
Students == {"s1", "s2", "s3"}
Teachers == {"t1", "t2"}
Admins == {"adm"}
Users == Students \cup Teachers \cup Admins

Role(u) == IF u \in Students THEN "student"
           ELSE IF u \in Teachers THEN "teacher" ELSE "admin"

IsVerified(u) == u # "t2"

\* studentAuth: students and admins pass
studentAuth(u) == ~(Role(u) # "student" /\ Role(u) # "admin")

\* verifiedTeacherAuth: verified teachers and admins pass
verifiedTeacherAuth(u) ==
  IF Role(u) # "teacher" /\ Role(u) # "admin" THEN FALSE
  ELSE IF Role(u) = "teacher" /\ ~IsVerified(u) THEN FALSE
  ELSE TRUE

(***************************************************************************)
(* Courses (read only here): Course.findById and the instructor field.    *)
(***************************************************************************)
\* the ids of the Test documents: one test is created
TestIds == {1}

Courses == {"c1"}
CourseInstructor(c) == "t1"
CourseFindById(c) == IF c \in Courses THEN Some([id |-> c, instructor |-> CourseInstructor(c)]) ELSE None

(***************************************************************************)
(* Texts are sequences of characters.                                      *)
(***************************************************************************)
Paris == << "P", "a", "r", "i", "s" >>
London == << "L", "o", "n", "d", "o", "n" >>
Empty == << >>

(***************************************************************************)
(* Questions (questionSchema) and the question lists request bodies carry.*)
(***************************************************************************)
QCapital(points) ==
  [id |-> "q1", question |-> << "C", "a", "p", "?" >>, type |-> "multiple_choice",
   options |-> << [text |-> Paris, isCorrect |-> TRUE],
                  [text |-> London, isCorrect |-> FALSE] >>,
   correctAnswer |-> None, points |-> points]

\* scenario A's question: points = 2
QParis == QCapital(2)

QuestionIds == {"q1", "q2"}

(***************************************************************************)
(* String methods of the grading code: toLowerCase and trim.              *)
(***************************************************************************)
UpperCase == << "A", "B", "C", "D", "E", "F", "G", "H", "I", "J", "K", "L", "M",
                "N", "O", "P", "Q", "R", "S", "T", "U", "V", "W", "X", "Y", "Z" >>
LowerCase == << "a", "b", "c", "d", "e", "f", "g", "h", "i", "j", "k", "l", "m",
                "n", "o", "p", "q", "r", "s", "t", "u", "v", "w", "x", "y", "z" >>

LowerChar(c) ==
  IF \E i \in DOMAIN UpperCase : UpperCase[i] = c
  THEN LowerCase[CHOOSE i \in DOMAIN UpperCase : UpperCase[i] = c]
  ELSE c

toLowerCase(s) == [i \in DOMAIN s |-> LowerChar(s[i])]

IsSpace(c) == c \in {" ", "\t", "\n"}

RECURSIVE trimStart(_)
trimStart(s) == IF s # << >> /\ IsSpace(Head(s)) THEN trimStart(Tail(s)) ELSE s

RECURSIVE trimEnd(_)
trimEnd(s) ==
  IF s # << >> /\ IsSpace(s[Len(s)]) THEN trimEnd(SubSeq(s, 1, Len(s) - 1)) ELSE s

\* a faulty trim: only the leading white space is removed
trimLeadingOnly(s) == trimStart(s)

trim(s) == trimEnd(trimStart(s))

\* Math.round of the non-negative quotient n / d
Round(n, d) == (2 * n + d) \div (2 * d)

MinOf(S) == CHOOSE x \in S : \A y \in S : x <= y

\* Array.prototype.find: the element at the first of the indexes that satisfy
\* the test, if any
FindFirst(seq, hits) == IF hits = {} THEN None ELSE Some(seq[MinOf(hits)])

\* Array.prototype.reduce with +, over a sequence of numbers
RECURSIVE Sum(_)
Sum(nums) == IF nums = << >> THEN 0 ELSE Head(nums) + Sum(Tail(nums))

(***************************************************************************)
(* Test document methods (models/Test.js).                                 *)
(***************************************************************************)
\* a faulty isAvailableForStudent: the end of the window is not looked at
AvailableIgnoringUntil(test, t) ==
  IF ~test.isPublished \/ ~test.isActive THEN FALSE
  ELSE IF IsSet(test.availableFrom) /\ t < Val(test.availableFrom) THEN FALSE
  ELSE TRUE

\* testSchema.methods.isAvailableForStudent, at time t
isAvailableForStudent(test, t) ==
  IF ~test.isPublished \/ ~test.isActive THEN FALSE
  ELSE IF IsSet(test.availableFrom) /\ t < Val(test.availableFrom) THEN FALSE
  ELSE IF IsSet(test.availableUntil) /\ t > Val(test.availableUntil) THEN FALSE
  ELSE TRUE

\* test.questions.id(questionId)
QuestionById(test, qid) ==
  FindFirst(test.questions, {i \in DOMAIN test.questions : test.questions[i].id = qid})

\* a faulty calculateStatistics: a score equal to passingScore does not pass
StatisticsStrictPass(test, found) ==
  IF Len(found) = 0
  THEN [totalAttempts |-> 0, averageScore |-> 0, passRate |-> 0]
  ELSE LET totalScore == Sum([i \in DOMAIN found |-> found[i].score])
           passedAttempts == Cardinality({i \in DOMAIN found :
                                            found[i].score > test.settings.passingScore})
       IN [totalAttempts |-> Len(found),
           averageScore |-> Round(totalScore, Len(found)),
           passRate |-> Round(passedAttempts * 100, Len(found))]

\* the statistics fields calculateStatistics assigns from the attempts found
StatisticsOf(test, found) ==
  IF Len(found) = 0
  THEN [totalAttempts |-> 0, averageScore |-> 0, passRate |-> 0]
  ELSE LET totalScore == Sum([i \in DOMAIN found |-> found[i].score])
           passedAttempts == Cardinality({i \in DOMAIN found :
                                            found[i].score >= test.settings.passingScore})
       IN [totalAttempts |-> Len(found),
           averageScore |-> Round(totalScore, Len(found)),
           passRate |-> Round(passedAttempts * 100, Len(found))]

(***************************************************************************)
(* Grading in the submit-answer handler.                                   *)
(***************************************************************************)
GradeAnswer(question, answer) ==
  IF question.type = "multiple_choice"
  THEN LET selectedOption ==
             FindFirst(question.options,
                       {i \in DOMAIN question.options : question.options[i].text = answer})
       IN IF IsSet(selectedOption) THEN Val(selectedOption).isCorrect ELSE FALSE
  ELSE IF question.type = "true_false"
  THEN LET literal == toLowerCase(answer) = << "t", "r", "u", "e" >>
                      \/ toLowerCase(answer) = << "f", "a", "l", "s", "e" >>
           correctAnswer ==
             FindFirst(question.options,
                       {i \in DOMAIN question.options : question.options[i].isCorrect})
       IN IF literal
          THEN IsSet(correctAnswer)
               /\ toLowerCase(Val(correctAnswer).text) = toLowerCase(answer)
          ELSE FALSE
  ELSE IF question.type = "fill_blank" \/ question.type = "short_answer"
  THEN trim(toLowerCase(answer)) = trim(toLowerCase(Val(question.correctAnswer)))
  ELSE FALSE

GradePoints(question, isCorrect) == IF isCorrect THEN question.points ELSE 0

(***************************************************************************)
(* TestAttempt document methods.                                           *)
(***************************************************************************)
\* new TestAttempt({student, test, course, attemptNumber}) with the schema defaults
NewAttempt(s, t, c, n, t0) ==
  [student |-> s, test |-> t, course |-> c, attemptNumber |-> n,
   answers |-> << >>, score |-> 0, totalPoints |-> 0, earnedPoints |-> 0,
   status |-> "in_progress", startedAt |-> t0, completedAt |-> None, timeSpent |-> 0,
   results |-> [correctAnswers |-> 0, incorrectAnswers |-> 0, unansweredQuestions |-> 0]]

\* a faulty score: a full score when there are no points to earn
ScoreFullWithoutPoints(earnedPoints, totalPoints) ==
  IF totalPoints > 0 THEN Round(earnedPoints * 100, totalPoints) ELSE 100

\* the score calculateScore assigns
ScoreOfPoints(earnedPoints, totalPoints) ==
  IF totalPoints > 0 THEN Round(earnedPoints * 100, totalPoints) ELSE 0

\* a faulty calculateScore: the status fields are left as they are
MarkNever(a, t) == a

\* a faulty calculateScore: the attempt is marked completed whatever its status
MarkAlways(a, t) ==
  [a EXCEPT !.status = "completed", !.completedAt = Some(t),
            !.timeSpent = t - a.startedAt]

\* the status fields calculateScore leaves: an in_progress attempt is marked completed
MarkCompleted(a, t) ==
  IF a.status = "in_progress"
  THEN [a EXCEPT !.status = "completed", !.completedAt = Some(t),
                 !.timeSpent = t - a.startedAt]
  ELSE a

\* testAttemptSchema.methods.calculateScore, at time t
calculateScore(a, t) ==
  LET ans == a.answers
      totalPoints == Sum([i \in DOMAIN ans |-> ans[i].points])
      earnedPoints == Sum([i \in DOMAIN ans |-> IF ans[i].isCorrect THEN ans[i].points ELSE 0])
      correct == {i \in DOMAIN ans : ans[i].isCorrect}
      incorrect == {i \in DOMAIN ans : ~ans[i].isCorrect /\ trim(ans[i].answer) # Empty}
      unanswered == {i \in DOMAIN ans : ~ans[i].isCorrect /\ ~(trim(ans[i].answer) # Empty)}
      scored == [a EXCEPT !.totalPoints = totalPoints,
                          !.earnedPoints = earnedPoints,
                          !.score = ScoreOfPoints(earnedPoints, totalPoints),
                          !.results = [correctAnswers |-> Cardinality(correct),
                                       incorrectAnswers |-> Cardinality(incorrect),
                                       unansweredQuestions |-> Cardinality(unanswered)]]
  IN MarkCompleted(scored, t)

\* a faulty upsert: every submission pushes a new entry
PushAnswer(answers, qid, answer) ==
  Append(answers, [question |-> qid, answer |-> answer,
                   isCorrect |-> FALSE, points |-> 0])

\* the answers array after submitAnswer's upsert: the entry of the question is
\* overwritten when there is one, else a new entry (schema defaults: isCorrect
\* false, points 0) is pushed
UpsertAnswer(answers, qid, answer) ==
  IF \E i \in DOMAIN answers : answers[i].question = qid
  THEN LET k == MinOf({i \in DOMAIN answers : answers[i].question = qid})
       IN [answers EXCEPT ![k].answer = answer]
  ELSE Append(answers, [question |-> qid, answer |-> answer,
                        isCorrect |-> FALSE, points |-> 0])

\* testAttemptSchema.methods.submitAnswer, at time t
submitAnswer(a, qid, answer, t) ==
  calculateScore([a EXCEPT !.answers = UpsertAnswer(a.answers, qid, answer)], t)

\* the pre('save') hook
preSave(a, t) == IF Len(a.answers) > 0 THEN calculateScore(a, t) ELSE a

\* testAttemptSchema.methods.getSummary
getSummary(a, id) ==
  [id |-> id, test |-> a.test, attemptNumber |-> a.attemptNumber, score |-> a.score,
   status |-> a.status, startedAt |-> a.startedAt, completedAt |-> a.completedAt,
   timeSpent |-> a.timeSpent, results |-> a.results, isPassed |-> a.score >= 60]

(***************************************************************************)
(* State: the Test, TestAttempt and Enrollment collections, the clock,    *)
(* the requests in flight (one per handler slot, with the handler's       *)
(* position and local variables) and the response sent by the last step.  *)
(***************************************************************************)
VARIABLES tests, attempts, enrollments, now, req, lastResp,
          payments, courseDocs, enrolledCourses, attendances

vars == << tests, attempts, enrollments, now, req, lastResp,
           payments, courseDocs, enrolledCourses, attendances >>

\* the Payment and Course collections, the users' enrolledCourses arrays and
\* the Attendance collection: the routes of the tests router leave them alone
otherCollections == << payments, courseDocs, enrolledCourses, attendances >>

Procs == {"p1", "p2"}

Idle == [op |-> "idle", pc |-> "idle"]

NoResp == [op |-> "none", status |-> 0, message |-> "none", user |-> "none"]

Resp(op, u, status, message) ==
  [op |-> op, status |-> status, message |-> message, user |-> u]

\* Test.findById
TestFindById(id) == IF id \in DOMAIN tests THEN tests[id] ELSE None

\* TestAttempt.findById
AttemptFindById(id) == IF id \in DOMAIN attempts THEN Some(attempts[id]) ELSE None

\* TestAttempt.find({student, test}): the ids of the documents found
FindAttempts(s, t) ==
  {i \in DOMAIN attempts : attempts[i].student = s /\ attempts[i].test = t}

\* a faulty lookup: a status no attempt has
FindInProgressMistyped(s, t) ==
  {i \in DOMAIN attempts : attempts[i].student = s /\ attempts[i].test = t
                           /\ attempts[i].status = "in-progress"}

\* a faulty lookup: the completed attempts instead of the one in progress
FindCompleted(s, t) ==
  {i \in DOMAIN attempts : attempts[i].student = s /\ attempts[i].test = t
                           /\ attempts[i].status = "completed"}

\* TestAttempt.findOne({student, test, status: 'in_progress'})
FindInProgress(s, t) ==
  {i \in DOMAIN attempts : attempts[i].student = s /\ attempts[i].test = t
                           /\ attempts[i].status = "in_progress"}

\* TestAttempt.find({test}), in insertion order
RECURSIVE FilterByTest(_, _)
FilterByTest(docs, t) ==
  IF docs = << >> THEN << >>
  ELSE IF Head(docs).test = t THEN << Head(docs) >> \o FilterByTest(Tail(docs), t)
  ELSE FilterByTest(Tail(docs), t)

\* Enrollment.findOne({student, course, status: 'active'})
FindActiveEnrollment(s, c) ==
  {e \in enrollments : e.student = s /\ e.course = c /\ e.status = "active"}

\* a collection without the unique index: every insert is accepted
IndexNotUnique(doc) == TRUE

\* the unique index {student, test, attemptNumber}: may doc be inserted?
UniqueIndexAllows(doc) ==
  ~\E i \in DOMAIN attempts :
      /\ attempts[i].student = doc.student
      /\ attempts[i].test = doc.test
      /\ attempts[i].attemptNumber = doc.attemptNumber

InFlight(op) == Cardinality({q \in Procs : req[q].op = op})

Init ==
  /\ tests = << >>
  /\ attempts = << >>
  /\ enrollments = {[student |-> "s1", course |-> "c1", status |-> "active"],
                    [student |-> "s2", course |-> "c1", status |-> "active"],
                    [student |-> "s3", course |-> "c1", status |-> "cancelled"]}
  /\ now = 0
  /\ req = [p \in Procs |-> Idle]
  /\ lastResp = NoResp
  /\ payments = << >>
  /\ courseDocs = [c \in Courses |-> [enrollmentCount |-> 0, totalRevenue |-> 0]]
  /\ enrolledCourses = [s \in Students |-> << >>]
  /\ attendances = << >>

\* a step of p that sends the response r and ends the request
Respond(p, r) ==
  /\ req' = [req EXCEPT ![p] = Idle]
  /\ lastResp' = r

\* a step of p that moves the handler on without responding
Continue(p, r) ==
  /\ req' = [req EXCEPT ![p] = r]
  /\ lastResp' = NoResp

(***************************************************************************)
(* The clock.                                                              *)
(***************************************************************************)
Tick ==
  /\ now < MaxTime
  /\ now' = now + 1
  /\ lastResp' = NoResp
  /\ UNCHANGED << tests, attempts, enrollments, req, otherCollections >>

(***************************************************************************)
(* POST /api/tests/:id/start                                               *)
(***************************************************************************)
\* a faulty limit check: one attempt too many is let through
AttemptLimitPassed(count, maxAttempts) == count > maxAttempts

\* a faulty numbering: the count itself
AttemptNumberIsCount(count) == count

\* a faulty numbering: a number is skipped
AttemptNumberSkips(count) == count + 2

\* existingAttempts.length >= test.settings.maxAttempts
AttemptLimitReached(count, maxAttempts) == count >= maxAttempts

\* attemptNumber: existingAttempts.length + 1
NextAttemptNumber(count) == count + 1

\* the request arrives: auth, studentAuth
StartBegin(p, u, t) ==
  /\ req[p] = Idle
  /\ Len(attempts) + InFlight("start") < MaxDocs
  /\ IF ~studentAuth(u)
     THEN Respond(p, Resp("start", u, 403, "Access denied. Student privileges required."))
     ELSE Continue(p, [op |-> "start", pc |-> "findTest", user |-> u, test |-> t])
  /\ UNCHANGED << tests, attempts, enrollments, now, otherCollections >>

\* Test.findById, then test.isAvailableForStudent
StartFindTest(p) ==
  /\ req[p].op = "start" /\ req[p].pc = "findTest"
  /\ LET r == req[p]
         test == TestFindById(r.test)
     IN IF ~IsSet(test)
        THEN Respond(p, Resp("start", r.user, 404, "Test not found"))
        ELSE IF ~isAvailableForStudent(Val(test), now)
        THEN Respond(p, Resp("start", r.user, 403, "Test is not available"))
        ELSE Continue(p, [r EXCEPT !.pc = "findEnrollment"]
                         @@ [testDoc |-> [course |-> Val(test).course,
                                          settings |-> Val(test).settings,
                                          isPublished |-> Val(test).isPublished,
                                          isActive |-> Val(test).isActive,
                                          availableFrom |-> Val(test).availableFrom,
                                          availableUntil |-> Val(test).availableUntil],
                             checkedAt |-> now])
  /\ UNCHANGED << tests, attempts, enrollments, now, otherCollections >>

\* Enrollment.findOne
StartFindEnrollment(p) ==
  /\ req[p].op = "start" /\ req[p].pc = "findEnrollment"
  /\ LET r == req[p]
     IN IF FindActiveEnrollment(r.user, r.testDoc.course) = {}
        THEN Respond(p, Resp("start", r.user, 403,
                             "You must be enrolled in the course to take this test"))
        ELSE Continue(p, [r EXCEPT !.pc = "findAttempts"])
  /\ UNCHANGED << tests, attempts, enrollments, now, otherCollections >>

\* TestAttempt.find: existingAttempts
StartFindAttempts(p) ==
  /\ req[p].op = "start" /\ req[p].pc = "findAttempts"
  /\ LET r == req[p]
         existingAttempts == FindAttempts(r.user, r.test)
     IN IF AttemptLimitReached(Cardinality(existingAttempts), r.testDoc.settings.maxAttempts)
        THEN Respond(p, Resp("start", r.user, 400, "Maximum attempts reached for this test"))
        ELSE Continue(p, [r EXCEPT !.pc = "findInProgress"]
                         @@ [existingCount |-> Cardinality(existingAttempts)])
  /\ UNCHANGED << tests, attempts, enrollments, now, otherCollections >>

\* TestAttempt.findOne: inProgressAttempt
StartFindInProgress(p) ==
  /\ req[p].op = "start" /\ req[p].pc = "findInProgress"
  /\ LET r == req[p]
     IN IF FindInProgress(r.user, r.test) # {}
        THEN Respond(p, Resp("start", r.user, 400,
                             "You already have an in-progress attempt for this test"))
        ELSE Continue(p, [r EXCEPT !.pc = "save"])
  /\ UNCHANGED << tests, attempts, enrollments, now, otherCollections >>

\* attempt.save(): the insert, rejected by the unique index on a duplicate
StartSave(p) ==
  /\ req[p].op = "start" /\ req[p].pc = "save"
  /\ LET r == req[p]
         attempt == NewAttempt(r.user, r.test, r.testDoc.course,
                               NextAttemptNumber(r.existingCount), now)
     IN IF UniqueIndexAllows(attempt)
        THEN /\ attempts' = Append(attempts, attempt)
             /\ Respond(p, [attemptId |-> Len(attempts) + 1, test |-> r.test,
                            attempt |-> getSummary(attempt, Len(attempts) + 1)]
                           @@ Resp("start", r.user, 200, "Test attempt started successfully"))
        ELSE /\ attempts' = attempts
             /\ Respond(p, [test |-> r.test, attemptNumber |-> attempt.attemptNumber]
                           @@ Resp("start", r.user, 500, "Server error starting test"))
  /\ UNCHANGED << tests, enrollments, now, otherCollections >>

(***************************************************************************)
(* POST /api/tests                                                         *)
(***************************************************************************)
\* the express-validator chain of the route
CreateBodyValid(body) ==
  /\ Len(body.questions) >= 1
  /\ body.settings.passingScore >= 0 /\ body.settings.passingScore <= 100

\* the handler's loop over the questions: the message of the first failure, if any
RECURSIVE ValidateQuestions(_, _)
ValidateQuestions(questions, i) ==
  IF i > Len(questions) THEN None
  ELSE LET question == questions[i]
       IN IF trim(question.question) = Empty
          THEN Some("Question text is required")
          ELSE IF question.type = "multiple_choice" /\ Len(question.options) < 2
          THEN Some("Question must have at least 2 options")
          ELSE IF question.type = "multiple_choice"
                  /\ {k \in DOMAIN question.options : question.options[k].isCorrect} = {}
          THEN Some("Question must have at least one correct option")
          ELSE ValidateQuestions(questions, i + 1)

\* questionSchema: the stored question, with the defaults and setters applied
StoredQuestion(q) ==
  [q EXCEPT !.question = trim(q.question),
            !.type = IF q.type = "undefined" THEN "multiple_choice" ELSE q.type,
            !.options = [k \in DOMAIN q.options |->
                           [q.options[k] EXCEPT !.text = trim(q.options[k].text)]]]

\* new Test({...testData, course, instructor: req.user.id, questions})
NewTest(body, u) ==
  [course |-> body.course, instructor |-> u,
   questions |-> [i \in DOMAIN body.questions |-> StoredQuestion(body.questions[i])],
   settings |-> body.settings,
   isPublished |-> body.isPublished, isActive |-> TRUE,
   availableFrom |-> body.availableFrom, availableUntil |-> body.availableUntil,
   totalAttempts |-> 0, averageScore |-> 0, passRate |-> 0]

\* the validators of testSchema and questionSchema
SettingsValid(settings) ==
  /\ settings.passingScore >= 0 /\ settings.passingScore <= 100
  /\ settings.maxAttempts >= 1

TestSchemaValid(test) ==
  /\ SettingsValid(test.settings)
  /\ \A i \in DOMAIN test.questions :
       LET q == test.questions[i]
       IN /\ q.question # Empty
          /\ q.points >= 1
          /\ \A k \in DOMAIN q.options : q.options[k].text # Empty
          /\ (q.type \in {"fill_blank", "short_answer"} => IsSet(q.correctAnswer))

\* the request arrives: auth, verifiedTeacherAuth, the validator chain
CreateBegin(p, u, body) ==
  /\ req[p] = Idle
  /\ Len(tests) + InFlight("create") < Cardinality(TestIds)
  /\ IF ~verifiedTeacherAuth(u)
     THEN Respond(p, Resp("create", u, 403, "Access denied."))
     ELSE IF ~CreateBodyValid(body)
     THEN Respond(p, Resp("create", u, 400, "Validation failed"))
     ELSE Continue(p, [op |-> "create", pc |-> "findCourse", user |-> u, body |-> body])
  /\ UNCHANGED << tests, attempts, enrollments, now, otherCollections >>

\* Course.findById, the ownership check and the question checks
CreateFindCourse(p) ==
  /\ req[p].op = "create" /\ req[p].pc = "findCourse"
  /\ LET r == req[p]
         courseDoc == CourseFindById(r.body.course)
         failure == ValidateQuestions(r.body.questions, 1)
     IN IF ~IsSet(courseDoc)
        THEN Respond(p, Resp("create", r.user, 404, "Course not found"))
        ELSE IF Val(courseDoc).instructor # r.user
        THEN Respond(p, Resp("create", r.user, 403,
                             "Not authorized to create tests for this course"))
        ELSE IF IsSet(failure)
        THEN Respond(p, Resp("create", r.user, 400, Val(failure)))
        ELSE Continue(p, [r EXCEPT !.pc = "save"])
  /\ UNCHANGED << tests, attempts, enrollments, now, otherCollections >>

\* test.save()
CreateSave(p) ==
  /\ req[p].op = "create" /\ req[p].pc = "save"
  /\ LET r == req[p]
         test == NewTest(r.body, r.user)
     IN IF TestSchemaValid(test)
        THEN /\ tests' = Append(tests, Some(test))
             /\ Respond(p, [test |-> Len(tests) + 1]
                           @@ Resp("create", r.user, 201, "Test created successfully"))
        ELSE /\ tests' = tests
             /\ Respond(p, Resp("create", r.user, 500, "Server error creating test"))
  /\ UNCHANGED << attempts, enrollments, now, otherCollections >>

(***************************************************************************)
(* PUT /api/tests/:id                                                      *)
(***************************************************************************)
\* the document after $set of the body's paths: patch.top holds the top-level
\* paths of the body, patch.settings its settings.* paths
ApplyPatch(test, patch) ==
  [(patch.top @@ test) EXCEPT !.settings = patch.settings @@ test.settings]

\* the request arrives: auth, verifiedTeacherAuth
UpdateBegin(p, u, t, patch) ==
  /\ req[p] = Idle
  /\ IF ~verifiedTeacherAuth(u)
     THEN Respond(p, Resp("update", u, 403, "Access denied."))
     ELSE Continue(p, [op |-> "update", pc |-> "findTest", user |-> u, test |-> t,
                       body |-> patch])
  /\ UNCHANGED << tests, attempts, enrollments, now, otherCollections >>

\* Test.findById and the ownership check
UpdateFindTest(p) ==
  /\ req[p].op = "update" /\ req[p].pc = "findTest"
  /\ LET r == req[p]
         test == TestFindById(r.test)
     IN IF ~IsSet(test)
        THEN Respond(p, Resp("update", r.user, 404, "Test not found"))
        ELSE IF Val(test).instructor # r.user
        THEN Respond(p, Resp("update", r.user, 403, "Not authorized to update this test"))
        ELSE Continue(p, [r EXCEPT !.pc = "update"])
  /\ UNCHANGED << tests, attempts, enrollments, now, otherCollections >>

\* Test.findByIdAndUpdate(id, req.body, {new: true, runValidators: true})
UpdateWrite(p) ==
  /\ req[p].op = "update" /\ req[p].pc = "update"
  /\ LET r == req[p]
         test == TestFindById(r.test)
     IN IF ~IsSet(test)
        THEN /\ tests' = tests
             /\ Respond(p, [test |-> r.test]
                           @@ Resp("update", r.user, 200, "Test updated successfully"))
        ELSE IF ~SettingsValid(ApplyPatch(Val(test), r.body).settings)
        THEN /\ tests' = tests
             /\ Respond(p, Resp("update", r.user, 500, "Server error updating test"))
        ELSE /\ tests' = [tests EXCEPT ![r.test] = Some(ApplyPatch(Val(test), r.body))]
             /\ Respond(p, [test |-> r.test]
                           @@ Resp("update", r.user, 200, "Test updated successfully"))
  /\ UNCHANGED << attempts, enrollments, now, otherCollections >>

(***************************************************************************)
(* DELETE /api/tests/:id                                                   *)
(***************************************************************************)
\* the request arrives: auth, verifiedTeacherAuth
DeleteBegin(p, u, t) ==
  /\ req[p] = Idle
  /\ IF ~verifiedTeacherAuth(u)
     THEN Respond(p, Resp("delete", u, 403, "Access denied."))
     ELSE Continue(p, [op |-> "delete", pc |-> "findTest", user |-> u, test |-> t])
  /\ UNCHANGED << tests, attempts, enrollments, now, otherCollections >>

\* Test.findById and the ownership check
DeleteFindTest(p) ==
  /\ req[p].op = "delete" /\ req[p].pc = "findTest"
  /\ LET r == req[p]
         test == TestFindById(r.test)
     IN IF ~IsSet(test)
        THEN Respond(p, Resp("delete", r.user, 404, "Test not found"))
        ELSE IF Val(test).instructor # r.user
        THEN Respond(p, Resp("delete", r.user, 403, "Not authorized to delete this test"))
        ELSE Continue(p, [r EXCEPT !.pc = "delete"])
  /\ UNCHANGED << tests, attempts, enrollments, now, otherCollections >>

\* Test.findByIdAndDelete: the test document is removed, its attempts stay
DeleteWrite(p) ==
  /\ req[p].op = "delete" /\ req[p].pc = "delete"
  /\ tests' = [t \in DOMAIN tests |-> IF t = req[p].test THEN None ELSE tests[t]]
  /\ Respond(p, [test |-> req[p].test]
                @@ Resp("delete", req[p].user, 200, "Test deleted successfully"))
  /\ UNCHANGED << attempts, enrollments, now, otherCollections >>

(***************************************************************************)
(* document.save() of a loaded TestAttempt: Mongoose writes the paths the *)
(* handler modified.  A scalar path is $set when its value differs from   *)
(* the loaded one; entries pushed onto answers are $push-ed onto the      *)
(* stored array; an entry modified in place is $set at its position.      *)
(***************************************************************************)
SaveAnswers(stored, loaded, local) ==
  LET n == Len(loaded)
      inPlace == [i \in DOMAIN stored |->
                    IF i <= n /\ i <= Len(local) /\ local[i] # loaded[i]
                    THEN local[i] ELSE stored[i]]
  IN IF Len(local) > n THEN inPlace \o SubSeq(local, n + 1, Len(local)) ELSE inPlace

SaveAttempt(stored, loaded, local) ==
  [stored EXCEPT
     !.answers = SaveAnswers(stored.answers, loaded.answers, local.answers),
     !.score = IF local.score # loaded.score THEN local.score ELSE @,
     !.totalPoints = IF local.totalPoints # loaded.totalPoints THEN local.totalPoints ELSE @,
     !.earnedPoints = IF local.earnedPoints # loaded.earnedPoints THEN local.earnedPoints ELSE @,
     !.status = IF local.status # loaded.status THEN local.status ELSE @,
     !.completedAt = IF local.completedAt # loaded.completedAt THEN local.completedAt ELSE @,
     !.timeSpent = IF local.timeSpent # loaded.timeSpent THEN local.timeSpent ELSE @,
     !.results = IF local.results # loaded.results THEN local.results ELSE @]

(***************************************************************************)
(* POST /api/tests/:id/submit-answer                                       *)
(***************************************************************************)
\* the request arrives: auth, studentAuth, the validator chain
SubmitBegin(p, u, aid, qid, answer) ==
  /\ req[p] = Idle
  /\ IF ~studentAuth(u)
     THEN Respond(p, Resp("submit", u, 403, "Access denied. Student privileges required."))
     ELSE IF answer = Empty
     THEN Respond(p, Resp("submit", u, 400, "Validation failed"))
     ELSE Continue(p, [op |-> "submit", pc |-> "findAttempt", user |-> u,
                       attemptId |-> aid, questionId |-> qid, answer |-> answer])
  /\ UNCHANGED << tests, attempts, enrollments, now, otherCollections >>

\* TestAttempt.findById, the ownership check and the status check
SubmitFindAttempt(p) ==
  /\ req[p].op = "submit" /\ req[p].pc = "findAttempt"
  /\ LET r == req[p]
         attempt == AttemptFindById(r.attemptId)
     IN IF ~IsSet(attempt)
        THEN Respond(p, Resp("submit", r.user, 404, "Test attempt not found"))
        ELSE IF Val(attempt).student # r.user
        THEN Respond(p, Resp("submit", r.user, 403,
                             "Not authorized to submit answer for this attempt"))
        ELSE IF Val(attempt).status # "in_progress"
        THEN Respond(p, Resp("submit", r.user, 400, "Test attempt is not in progress"))
        ELSE Continue(p, [r EXCEPT !.pc = "findTest"] @@ [loaded |-> Val(attempt)])
  /\ UNCHANGED << tests, attempts, enrollments, now, otherCollections >>

\* Test.findById, the question lookup, grading, attempt.submitAnswer and the
\* pre-save hook of the save that follows
SubmitFindTest(p) ==
  /\ req[p].op = "submit" /\ req[p].pc = "findTest"
  /\ LET r == req[p]
         test == TestFindById(r.loaded.test)
         question == QuestionById(Val(test), r.questionId)
         isCorrect == GradeAnswer(Val(question), r.answer)
         points == GradePoints(Val(question), isCorrect)
         attempt == preSave(submitAnswer(r.loaded, r.questionId, r.answer, now), now)
     IN IF ~IsSet(test)
        THEN Respond(p, Resp("submit", r.user, 500, "Server error submitting answer"))
        ELSE IF ~IsSet(question)
        THEN Respond(p, Resp("submit", r.user, 404, "Question not found"))
        ELSE Continue(p, [r EXCEPT !.pc = "save"]
                         @@ [attempt |-> attempt, isCorrect |-> isCorrect, points |-> points,
                             question |-> Val(question)])
  /\ UNCHANGED << tests, attempts, enrollments, now, otherCollections >>

\* attempt.save() and the response
SubmitSave(p) ==
  /\ req[p].op = "submit" /\ req[p].pc = "save"
  /\ LET r == req[p]
     IN /\ attempts' = [attempts EXCEPT ![r.attemptId] = SaveAttempt(@, r.loaded, r.attempt)]
        /\ Respond(p, [attemptId |-> r.attemptId, question |-> r.question,
                       answer |-> r.answer, isCorrect |-> r.isCorrect,
                       points |-> r.points, totalScore |-> r.attempt.score]
                      @@ Resp("submit", r.user, 200, "Answer submitted successfully"))
  /\ UNCHANGED << tests, enrollments, now, otherCollections >>

(***************************************************************************)
(* POST /api/tests/:id/finish                                              *)
(***************************************************************************)
\* the request arrives: auth, studentAuth
FinishBegin(p, u, aid) ==
  /\ req[p] = Idle
  /\ IF ~studentAuth(u)
     THEN Respond(p, Resp("finish", u, 403, "Access denied. Student privileges required."))
     ELSE Continue(p, [op |-> "finish", pc |-> "findAttempt", user |-> u, attemptId |-> aid])
  /\ UNCHANGED << tests, attempts, enrollments, now, otherCollections >>

\* TestAttempt.findById, the ownership and status checks, then the handler
\* sets status and completedAt (and the pre-save hook runs)
FinishFindAttempt(p) ==
  /\ req[p].op = "finish" /\ req[p].pc = "findAttempt"
  /\ LET r == req[p]
         attempt == AttemptFindById(r.attemptId)
     IN IF ~IsSet(attempt)
        THEN Respond(p, Resp("finish", r.user, 404, "Test attempt not found"))
        ELSE IF Val(attempt).student # r.user
        THEN Respond(p, Resp("finish", r.user, 403, "Not authorized to finish this attempt"))
        ELSE IF Val(attempt).status # "in_progress"
        THEN Respond(p, Resp("finish", r.user, 400, "Test attempt is not in progress"))
        ELSE Continue(p, [r EXCEPT !.pc = "save"]
                         @@ [loaded |-> Val(attempt),
                             attempt |-> preSave([Val(attempt) EXCEPT
                                                    !.status = "completed",
                                                    !.completedAt = Some(now)], now)])
  /\ UNCHANGED << tests, attempts, enrollments, now, otherCollections >>

\* attempt.save()
FinishSave(p) ==
  /\ req[p].op = "finish" /\ req[p].pc = "save"
  /\ LET r == req[p]
     IN /\ attempts' = [attempts EXCEPT ![r.attemptId] = SaveAttempt(@, r.loaded, r.attempt)]
        /\ Continue(p, [r EXCEPT !.pc = "findTest"])
  /\ UNCHANGED << tests, enrollments, now, otherCollections >>

\* Test.findById(attempt.test); calling calculateStatistics on null throws
FinishFindTest(p) ==
  /\ req[p].op = "finish" /\ req[p].pc = "findTest"
  /\ LET r == req[p]
         test == TestFindById(r.attempt.test)
     IN IF ~IsSet(test)
        THEN Respond(p, Resp("finish", r.user, 500, "Server error finishing test"))
        ELSE Continue(p, [r EXCEPT !.pc = "statsFind"]
                         @@ [testDoc |-> [settings |-> Val(test).settings,
                                          totalAttempts |-> Val(test).totalAttempts,
                                          averageScore |-> Val(test).averageScore,
                                          passRate |-> Val(test).passRate]])
  /\ UNCHANGED << tests, attempts, enrollments, now, otherCollections >>

\* calculateStatistics: TestAttempt.find({test}) and the assignments
FinishStatsFind(p) ==
  /\ req[p].op = "finish" /\ req[p].pc = "statsFind"
  /\ LET r == req[p]
     IN Continue(p, [r EXCEPT !.pc = "statsSave"]
                    @@ [stats |-> StatisticsOf(r.testDoc, FilterByTest(attempts, r.attempt.test))])
  /\ UNCHANGED << tests, attempts, enrollments, now, otherCollections >>

\* the statistics paths this.save() writes: those whose value changed
SaveStatistics(stored, loaded, stats) ==
  [stored EXCEPT
     !.totalAttempts = IF stats.totalAttempts # loaded.totalAttempts
                       THEN stats.totalAttempts ELSE @,
     !.averageScore = IF stats.averageScore # loaded.averageScore
                      THEN stats.averageScore ELSE @,
     !.passRate = IF stats.passRate # loaded.passRate THEN stats.passRate ELSE @]

StatisticsModified(loaded, stats) ==
  \/ stats.totalAttempts # loaded.totalAttempts
  \/ stats.averageScore # loaded.averageScore
  \/ stats.passRate # loaded.passRate

\* calculateStatistics: this.save(), then the response
FinishStatsSave(p) ==
  /\ req[p].op = "finish" /\ req[p].pc = "statsSave"
  /\ LET r == req[p]
         test == TestFindById(r.attempt.test)
     IN IF ~IsSet(test) /\ StatisticsModified(r.testDoc, r.stats)
        THEN /\ tests' = tests
             /\ Respond(p, Resp("finish", r.user, 500, "Server error finishing test"))
        ELSE /\ tests' = IF IsSet(test)
                         THEN [tests EXCEPT ![r.attempt.test] =
                                 Some(SaveStatistics(Val(test), r.testDoc, r.stats))]
                         ELSE tests
             /\ Respond(p, [attemptId |-> r.attemptId,
                            attempt |-> getSummary(r.attempt, r.attemptId),
                            isPassed |-> r.attempt.score >= r.testDoc.settings.passingScore]
                           @@ Resp("finish", r.user, 200, "Test completed successfully"))
  /\ UNCHANGED << attempts, enrollments, now, otherCollections >>

(***************************************************************************)
(* The requests the clients send.                                          *)
(***************************************************************************)
NoPaths == [x \in {} |-> 0]

Body(qs, m, pub, from, until) ==
  [course |-> "c1", questions |-> qs, settings |-> [passingScore |-> 50, maxAttempts |-> m],
   isPublished |-> pub, availableFrom |-> from, availableUntil |-> until]

SettingsPatch(m) == [top |-> NoPaths, settings |-> [maxAttempts |-> m]]

(***************************************************************************)
(* Spec: the attempt lifecycle under interleaved requests of two students *)
(* and the instructor, on a published test without a window.              *)
(***************************************************************************)
Callers == {"s1", "s2", "t1"}

CreateBodies == {Body(<< QParis >>, m, TRUE, None, None) : m \in 1..MaxAttemptsInput}

UpdateBodies == {SettingsPatch(m) : m \in 1..MaxAttemptsInput}

Next ==
  \/ \E u \in Callers, body \in CreateBodies : CreateBegin("p1", u, body)
  \/ CreateFindCourse("p1")
  \/ CreateSave("p1")
  \/ \E u \in Callers, t \in TestIds, patch \in UpdateBodies :
       UpdateBegin("p1", u, t, patch)
  \/ UpdateFindTest("p1")
  \/ UpdateWrite("p1")
  \/ \E u \in Callers, aid \in 1..MaxDocs : SubmitBegin("p1", u, aid, "q1", Paris)
  \/ SubmitFindAttempt("p1")
  \/ SubmitFindTest("p1")
  \/ SubmitSave("p1")
  \/ \E u \in Callers, aid \in 1..MaxDocs : FinishBegin("p1", u, aid)
  \/ FinishFindAttempt("p1")
  \/ FinishSave("p1")
  \/ FinishFindTest("p1")
  \/ FinishStatsFind("p1")
  \/ FinishStatsSave("p1")
  \/ \E p \in Procs :
       \/ \E u \in Callers, t \in TestIds : StartBegin(p, u, t)
       \/ StartFindTest(p)
       \/ StartFindEnrollment(p)
       \/ StartFindAttempts(p)
       \/ StartFindInProgress(p)
       \/ StartSave(p)

Spec == Init /\ [][Next]_vars

(***************************************************************************)
(* Vocabulary of the properties, read off the collections directly.       *)
(***************************************************************************)
StoredTests == {t \in DOMAIN tests : IsSet(tests[t])}

AttemptsOfPair(s, t) ==
  {i \in 1..Len(attempts) : attempts[i].student = s /\ attempts[i].test = t}

InProgressOfPair(s, t) ==
  {i \in AttemptsOfPair(s, t) : attempts[i].status = "in_progress"}

\* p takes a step of its start handler from position pc
StartStep(p, pc) == req[p].op = "start" /\ req[p].pc = pc /\ req'[p] # req[p]

MsgLimit == "Maximum attempts reached for this test"
MsgInProgress == "You already have an in-progress attempt for this test"
MsgNotAvailable == "Test is not available"
MsgNotEnrolled == "You must be enrolled in the course to take this test"

(***************************************************************************)
(* C1: for every (student, test) pair the number of TestAttempt records   *)
(* is at most the test's current settings.maxAttempts, in every reachable *)
(* state.  Refuted: PUT /tests/:id lowers maxAttempts below the number of *)
(* attempts a student already has.                                        *)
(***************************************************************************)
C1_AttemptCountWithinMax ==
  \A t \in StoredTests : \A s \in Users :
    Cardinality(AttemptsOfPair(s, t)) <= Val(tests[t]).settings.maxAttempts

(***************************************************************************)
(* C2: in every reachable state, every (student, test) pair has at most   *)
(* one attempt with status in_progress, also when two start requests of   *)
(* the same student interleave their reads before either saves.           *)
(***************************************************************************)
C2_OneInProgress ==
  \A s \in Users : \A t \in TestIds : Cardinality(InProgressOfPair(s, t)) <= 1

\* one request has saved its attempt while the other, of the same student for
\* the same test, has done both reads and is about to save
C2_Witness ==
  \E p \in Procs :
    /\ req[p].op = "start" /\ req[p].pc = "save"
    /\ InProgressOfPair(req[p].user, req[p].test) # {}

(***************************************************************************)
(* C3: no two persisted attempts share (student, test, attemptNumber):    *)
(* of two concurrent start requests that read the same count at most one  *)
(* persists an attempt numbered count + 1.                                *)
(***************************************************************************)
C3_UniqueAttemptNumber ==
  \A i, j \in 1..Len(attempts) :
    (/\ attempts[i].student = attempts[j].student
     /\ attempts[i].test = attempts[j].test
     /\ attempts[i].attemptNumber = attempts[j].attemptNumber) => i = j

\* the losing request was just rejected and the winner's attempt is stored
C3_Witness ==
  /\ lastResp.op = "start" /\ lastResp.status = 500
  /\ \E i \in 1..Len(attempts) :
       /\ attempts[i].student = lastResp.user
       /\ attempts[i].test = lastResp.test
       /\ attempts[i].attemptNumber = lastResp.attemptNumber

(***************************************************************************)
(* C4: a start request of an enrolled student on an available test that   *)
(* finds as many attempts (in any status) as the maxAttempts of the test  *)
(* it loaded, or more, answers "Maximum attempts reached" and creates no  *)
(* attempt.                                                                *)
(***************************************************************************)
C4_LimitExceeded ==
  [][\A p \in Procs :
       (/\ StartStep(p, "findAttempts")
        /\ Cardinality(AttemptsOfPair(req[p].user, req[p].test))
             >= req[p].testDoc.settings.maxAttempts)
       => /\ lastResp' = Resp("start", req[p].user, 400, MsgLimit)
          /\ attempts' = attempts]_vars

\* scenario D: refused after one completed attempt on a test with maxAttempts = 1
C4_Witness ==
  /\ lastResp.op = "start" /\ lastResp.message = MsgLimit
  /\ \E t \in StoredTests :
       /\ Val(tests[t]).settings.maxAttempts = 1
       /\ \E i \in AttemptsOfPair(lastResp.user, t) : attempts[i].status = "completed"

(***************************************************************************)
(* C5 as claimed: a start request (test available, student enrolled) that *)
(* reads the count or looks for an in-progress attempt while the student  *)
(* has one answers nothing but "You already have an in-progress attempt", *)
(* whatever maxAttempts and the number of attempts are.                   *)
(***************************************************************************)
C5_AlwaysInProgressError ==
  [][\A p \in Procs :
       (/\ (StartStep(p, "findAttempts") \/ StartStep(p, "findInProgress"))
        /\ InProgressOfPair(req[p].user, req[p].test) # {}
        /\ lastResp' # NoResp)
       => lastResp'.message = MsgInProgress]_vars

(***************************************************************************)
(* C5 as amended: while the student has an in-progress attempt, the       *)
(* request answers "Maximum attempts reached" when the count read is at   *)
(* least maxAttempts (the limit is checked first), and "You already have  *)
(* an in-progress attempt" otherwise; no step of it creates an attempt.   *)
(***************************************************************************)
C5_InProgressOrLimit ==
  [][\A p \in Procs :
       (/\ req[p].op = "start" /\ req'[p] # req[p]
        /\ req[p].pc \in {"findAttempts", "findInProgress", "save"}
        /\ InProgressOfPair(req[p].user, req[p].test) # {})
       => /\ attempts' = attempts
          /\ (req[p].pc = "findAttempts" =>
                IF Cardinality(AttemptsOfPair(req[p].user, req[p].test))
                     >= req[p].testDoc.settings.maxAttempts
                THEN lastResp' = Resp("start", req[p].user, 400, MsgLimit)
                ELSE lastResp' = NoResp /\ req'[p].pc = "findInProgress")
          /\ (req[p].pc = "findInProgress" =>
                lastResp' = Resp("start", req[p].user, 400, MsgInProgress))]_vars

\* scenario E: refused while the first of two allowed attempts is in progress
C5_Witness ==
  /\ lastResp.op = "start" /\ lastResp.message = MsgInProgress
  /\ \E t \in StoredTests :
       /\ InProgressOfPair(lastResp.user, t) # {}
       /\ Cardinality(AttemptsOfPair(lastResp.user, t)) < Val(tests[t]).settings.maxAttempts

(***************************************************************************)
(* SpecAvail: publication, activation, the availability window and the    *)
(* clock; the instructor's requests run beside one student's start.       *)
(***************************************************************************)
Windows == {None} \cup {Some(t) : t \in 1..(MaxTime - 1)}

CreateBodiesAvail ==
  {Body(<< QParis >>, MaxAttemptsInput, pub, from, until) :
     pub \in BOOLEAN, from \in Windows, until \in Windows}

UpdateBodiesAvail ==
  {[top |-> [isPublished |-> b], settings |-> NoPaths] : b \in BOOLEAN}
  \cup {[top |-> [isActive |-> b], settings |-> NoPaths] : b \in BOOLEAN}

CallersAvail == {"s1", "s3", "t1"}

NextAvail ==
  \/ Tick
  \/ \E u \in CallersAvail, body \in CreateBodiesAvail : CreateBegin("p1", u, body)
  \/ CreateFindCourse("p1")
  \/ CreateSave("p1")
  \/ \E u \in CallersAvail, t \in TestIds, patch \in UpdateBodiesAvail :
       UpdateBegin("p1", u, t, patch)
  \/ UpdateFindTest("p1")
  \/ UpdateWrite("p1")
  \/ \E u \in CallersAvail, t \in TestIds : StartBegin("p2", u, t)
  \/ StartFindTest("p2")
  \/ StartFindEnrollment("p2")
  \/ StartFindAttempts("p2")
  \/ StartFindInProgress("p2")
  \/ StartSave("p2")

SpecAvail == Init /\ [][NextAvail]_vars

(***************************************************************************)
(* SpecGrade: one student's attempts on a one-question test, with correct *)
(* and incorrect answers, known and unknown questions, and two requests   *)
(* of the student in flight at a time.                                    *)
(***************************************************************************)
CreateBodiesGrade ==
  {Body(<< QCapital(pts) >>, MaxAttemptsInput, TRUE, None, None) : pts \in {1, MaxPoints}}

Answers == {Paris, London}

NextGrade ==
  \/ \E body \in CreateBodiesGrade : CreateBegin("p1", "t1", body)
  \/ CreateFindCourse("p1")
  \/ CreateSave("p1")
  \/ \E t \in TestIds : StartBegin("p1", "s1", t)
  \/ StartFindTest("p1")
  \/ StartFindEnrollment("p1")
  \/ StartFindAttempts("p1")
  \/ StartFindInProgress("p1")
  \/ StartSave("p1")
  \/ \E aid \in 1..MaxDocs, qid \in QuestionIds, answer \in Answers :
       SubmitBegin("p1", "s1", aid, qid, answer)
  \/ \E aid \in 1..MaxDocs, answer \in Answers :
       SubmitBegin("p2", "s1", aid, "q1", answer)
  \/ \E p \in Procs :
       \/ SubmitFindAttempt(p)
       \/ SubmitFindTest(p)
       \/ SubmitSave(p)
  \/ \E aid \in 1..MaxDocs : FinishBegin("p1", "s1", aid)
  \/ FinishFindAttempt("p1")
  \/ FinishSave("p1")
  \/ FinishFindTest("p1")
  \/ FinishStatsFind("p1")
  \/ FinishStatsSave("p1")

SpecGrade == Init /\ [][NextGrade]_vars

(***************************************************************************)
(* More vocabulary of the properties.                                      *)
(***************************************************************************)
\* published, active and inside the window (a bound counts only when set)
TestAvailable(test, t) ==
  /\ test.isPublished
  /\ test.isActive
  /\ (test.availableFrom # None => t >= test.availableFrom[1])
  /\ (test.availableUntil # None => t <= test.availableUntil[1])

ActivelyEnrolled(s, c) ==
  \E e \in enrollments : e.student = s /\ e.course = c /\ e.status = "active"

\* what the start request p has read so far is what is stored now
StartReadsFresh(p) ==
  LET test == Val(tests[req[p].test])
  IN /\ (req[p].pc # "findTest" =>
           /\ req[p].testDoc.settings = test.settings
           /\ req[p].testDoc.course = test.course)
     /\ (req[p].pc \in {"findInProgress", "save"} =>
           req[p].existingCount = Cardinality(AttemptsOfPair(req[p].user, req[p].test)))

(***************************************************************************)
(* C6: every attempt is persisted by a successful start request, with     *)
(* status in_progress and attemptNumber = (number of attempts the student *)
(* has on the test) + 1.  And once the student's attempts 1..n are all    *)
(* finished, with n >= 1 and n < maxAttempts, the test available and the  *)
(* student enrolled, a start request whose reads no other request         *)
(* overtakes does not fail and persists attempt n + 1.                    *)
(***************************************************************************)
C6_NextAttemptNumber ==
  [][/\ (attempts' # attempts /\ Len(attempts') > Len(attempts)) =>
          LET a == attempts'[Len(attempts')]
          IN /\ attempts' = Append(attempts, a)
             /\ a.attemptNumber = Cardinality(AttemptsOfPair(a.student, a.test)) + 1
             /\ a.status = "in_progress"
             /\ lastResp'.op = "start" /\ lastResp'.status = 200
             /\ lastResp'.attempt.attemptNumber = a.attemptNumber
             /\ lastResp'.attempt.status = "in_progress"
     /\ \A p \in Procs :
          (/\ req[p].op = "start" /\ req'[p] # req[p]
           /\ req[p].test \in StoredTests
           /\ LET u == req[p].user
                  t == req[p].test
                  n == Cardinality(AttemptsOfPair(u, t))
              IN /\ TestAvailable(Val(tests[t]), now)
                 /\ ActivelyEnrolled(u, Val(tests[t]).course)
                 /\ n >= 1 /\ n < Val(tests[t]).settings.maxAttempts
                 /\ InProgressOfPair(u, t) = {}
                 /\ StartReadsFresh(p))
          => IF req[p].pc = "save"
             THEN /\ Len(attempts') = Len(attempts) + 1
                  /\ attempts'[Len(attempts')].student = req[p].user
                  /\ attempts'[Len(attempts')].test = req[p].test
                  /\ attempts'[Len(attempts')].attemptNumber
                       = Cardinality(AttemptsOfPair(req[p].user, req[p].test)) + 1
                  /\ lastResp'.status = 200
             ELSE lastResp' = NoResp /\ attempts' = attempts]_vars

\* scenario E: attempt 1 was finished and the next start returned attempt 2
C6_Witness ==
  /\ lastResp.op = "start" /\ lastResp.status = 200
  /\ lastResp.attempt.attemptNumber = 2
  /\ \E i \in AttemptsOfPair(lastResp.user, lastResp.test) :
       /\ attempts[i].attemptNumber = 1
       /\ attempts[i].status = "completed"
       /\ attempts[i].answers = << >>

(***************************************************************************)
(* C7: a start request whose test is not published, not active or outside *)
(* its window when it is loaded answers "Test is not available" (whether  *)
(* or not the caller is enrolled); one whose caller has no active         *)
(* enrollment in the test's course answers "You must be enrolled"; both   *)
(* leave the attempts unchanged; and an attempt is persisted only by a    *)
(* request that found the test available and the caller enrolled.         *)
(***************************************************************************)
C7_StartNeedsAvailableAndEnrolled ==
  [][/\ \A p \in Procs :
          /\ (/\ StartStep(p, "findTest")
              /\ req[p].test \in StoredTests
              /\ ~TestAvailable(Val(tests[req[p].test]), now))
             => /\ lastResp' = Resp("start", req[p].user, 403, MsgNotAvailable)
                /\ attempts' = attempts
          /\ (/\ StartStep(p, "findEnrollment")
              /\ ~ActivelyEnrolled(req[p].user, req[p].testDoc.course))
             => /\ lastResp' = Resp("start", req[p].user, 403, MsgNotEnrolled)
                /\ attempts' = attempts
     /\ attempts' # attempts =>
          \E p \in Procs :
            /\ StartStep(p, "save")
            /\ TestAvailable(req[p].testDoc, req[p].checkedAt)
            /\ ActivelyEnrolled(req[p].user, req[p].testDoc.course)]_vars

\* refused after the window closed, the caller not being enrolled either
C7_Witness ==
  /\ lastResp = Resp("start", "s3", 403, MsgNotAvailable)
  /\ \E t \in StoredTests :
       /\ Val(tests[t]).isPublished /\ Val(tests[t]).isActive
       /\ Val(tests[t]).availableUntil # None
       /\ now > Val(tests[t]).availableUntil[1]

(***************************************************************************)
(* C8: submitting again the answer text an attempt already holds for a    *)
(* question leaves score, totalPoints, earnedPoints and the number of     *)
(* answers as they are: for submitAnswer applied to the attempt in memory *)
(* after the first submission, for submitAnswer applied to the stored     *)
(* attempt, and for the second request, which changes no attempt.         *)
(***************************************************************************)
SameScoring(a, b) ==
  /\ b.score = a.score
  /\ b.totalPoints = a.totalPoints
  /\ b.earnedPoints = a.earnedPoints
  /\ Len(b.answers) = Len(a.answers)

C8_IdempotentResubmission ==
  /\ [](/\ \A i \in 1..Len(attempts) : \A k \in 1..Len(attempts[i].answers) :
             SameScoring(attempts[i],
                         submitAnswer(attempts[i], attempts[i].answers[k].question,
                                      attempts[i].answers[k].answer, now))
        /\ \A p \in Procs :
             (req[p].op = "submit" /\ req[p].pc = "save") =>
               SameScoring(req[p].attempt,
                           submitAnswer(req[p].attempt, req[p].questionId,
                                        req[p].answer, now)))
  /\ [][\A p \in Procs :
          (/\ req[p].op = "submit" /\ req'[p] # req[p]
           /\ req[p].attemptId \in 1..Len(attempts)
           /\ \E k \in 1..Len(attempts[req[p].attemptId].answers) :
                /\ attempts[req[p].attemptId].answers[k].question = req[p].questionId
                /\ attempts[req[p].attemptId].answers[k].answer = req[p].answer
           /\ req[p].pc = "findAttempt")
          => attempts' = attempts /\ lastResp'.status = 400]_vars

\* the same answer was submitted a second time and the request was answered
C8_Witness ==
  /\ lastResp = Resp("submit", "s1", 400, "Test attempt is not in progress")
  /\ \E i \in 1..Len(attempts) :
       /\ attempts[i].student = "s1"
       /\ Len(attempts[i].answers) = 1
       /\ attempts[i].answers[1].answer = Paris

(***************************************************************************)
(* C9: every stored attempt has 0 <= score <= 100, and score = 0 when its *)
(* totalPoints = 0; so has the score calculateScore assigns for any       *)
(* earned and total points.                                                *)
(***************************************************************************)
C9_ScoreBounds ==
  /\ \A i \in 1..Len(attempts) :
       /\ attempts[i].score >= 0 /\ attempts[i].score <= 100
       /\ (attempts[i].totalPoints = 0 => attempts[i].score = 0)
  /\ \A total \in 0..(2 * MaxPoints) : \A earned \in 0..total :
       /\ ScoreOfPoints(earned, total) >= 0 /\ ScoreOfPoints(earned, total) <= 100
       /\ (total = 0 => ScoreOfPoints(earned, total) = 0)

\* an answered attempt whose totalPoints is 0
C9_Witness ==
  \E i \in 1..Len(attempts) :
    /\ Len(attempts[i].answers) >= 1
    /\ attempts[i].totalPoints = 0
    /\ attempts[i].score = 0

(***************************************************************************)
(* C10: after a successful submit-answer for a multiple_choice question   *)
(* on a fresh attempt, the response has isCorrect = true and points = p   *)
(* and the attempt has score 100 when the text is that of the correct     *)
(* option; isCorrect = false, points = 0 and score 0 when it is that of   *)
(* an incorrect option.  Refuted: the stored answer keeps isCorrect =     *)
(* false and points = 0, so the score is 0 after a correct answer.        *)
(***************************************************************************)
C10_ScenarioAB ==
  (/\ lastResp.op = "submit" /\ lastResp.status = 200
   /\ lastResp.question.type = "multiple_choice"
   /\ Len(attempts[lastResp.attemptId].answers) = 1)
  => LET q == lastResp.question
         a == attempts[lastResp.attemptId]
         right == \E k \in 1..Len(q.options) :
                    q.options[k].text = lastResp.answer /\ q.options[k].isCorrect
         wrong == \E k \in 1..Len(q.options) :
                    q.options[k].text = lastResp.answer /\ ~q.options[k].isCorrect
     IN /\ right => /\ lastResp.isCorrect
                    /\ lastResp.points = q.points
                    /\ a.score = 100
        /\ (wrong /\ ~right) => /\ ~lastResp.isCorrect
                                /\ lastResp.points = 0
                                /\ a.score = 0

(***************************************************************************)
(* SpecAnswer: one student answers a test of one question, for questions  *)
(* of several types and several answer texts; requests run one at a time. *)
(***************************************************************************)
ParisLower == << "p", "a", "r", "i", "s" >>
Canberra == << "C", "a", "n", "b", "e", "r", "r", "a" >>
CanberraPadded == << " ", "c", "a", "n", "b", "e", "r", "r", "a", " " >>
Oslo == << "o", "s", "l", "o" >>
OsloPadded == << " ", "O", "S", "L", "O" >>

\* multiple_choice questions in which two options carry the same text
QDupWrongFirst ==
  [QParis EXCEPT !.options = << [text |-> Paris, isCorrect |-> FALSE],
                                [text |-> Paris, isCorrect |-> TRUE] >>]

QDupRightFirst ==
  [QParis EXCEPT !.options = << [text |-> Paris, isCorrect |-> TRUE],
                                [text |-> Paris, isCorrect |-> FALSE] >>]

\* scenario C's question
QCanberra ==
  [QParis EXCEPT !.type = "short_answer", !.options = << >>,
                 !.correctAnswer = Some(Canberra)]

QOslo ==
  [QParis EXCEPT !.type = "fill_blank", !.options = << >>,
                 !.correctAnswer = Some(OsloPadded)]

QuestionsAnswer == {QParis, QDupWrongFirst, QDupRightFirst, QCanberra, QOslo}

CreateBodiesAnswer ==
  {Body(<< q >>, MaxAttemptsInput, TRUE, None, None) : q \in QuestionsAnswer}

AnswersAnswer == {Paris, ParisLower, London, Canberra, CanberraPadded, Oslo}

NextAnswer ==
  \/ \E body \in CreateBodiesAnswer : CreateBegin("p1", "t1", body)
  \/ CreateFindCourse("p1")
  \/ CreateSave("p1")
  \/ \E t \in TestIds : StartBegin("p1", "s1", t)
  \/ StartFindTest("p1")
  \/ StartFindEnrollment("p1")
  \/ StartFindAttempts("p1")
  \/ StartFindInProgress("p1")
  \/ StartSave("p1")
  \/ \E aid \in 1..MaxDocs, answer \in AnswersAnswer :
       SubmitBegin("p1", "s1", aid, "q1", answer)
  \/ SubmitFindAttempt("p1")
  \/ SubmitFindTest("p1")
  \/ SubmitSave("p1")

SpecAnswer == Init /\ [][NextAnswer]_vars

\* the last step answered a submit-answer request with success
SubmitAnswered == lastResp.op = "submit" /\ lastResp.status = 200

(***************************************************************************)
(* C11: whenever submit-answer succeeds for a multiple_choice question,   *)
(* the isCorrect it reports is true if and only if the submitted text is  *)
(* equal, character for character, to the text of at least one option     *)
(* marked isCorrect, also when several options carry the same text.       *)
(* Refuted: the first option with the submitted text decides, so a text   *)
(* shared by an incorrect option listed first and a correct one listed    *)
(* later is reported incorrect.                                            *)
(***************************************************************************)
C11_CorrectIffSomeCorrectOption ==
  (SubmitAnswered /\ lastResp.question.type = "multiple_choice")
  => (lastResp.isCorrect
      <=> \E k \in DOMAIN lastResp.question.options :
            /\ lastResp.question.options[k].text = lastResp.answer
            /\ lastResp.question.options[k].isCorrect)

\* a text without the white space around it: from its first to its last
\* character that is not white space
WithoutMargins(s) ==
  LET inked == {i \in DOMAIN s : s[i] \notin {" ", "\t", "\n"}}
  IN IF inked = {} THEN << >>
     ELSE SubSeq(s, CHOOSE i \in inked : \A j \in inked : i <= j,
                    CHOOSE i \in inked : \A j \in inked : i >= j)

\* two texts that differ at most in the case of their letters
SameUpToCase(s, t) ==
  /\ Len(s) = Len(t)
  /\ \A i \in DOMAIN s :
       \/ s[i] = t[i]
       \/ \E k \in DOMAIN UpperCase : {s[i], t[i]} = {UpperCase[k], LowerCase[k]}

(***************************************************************************)
(* C12: whenever submit-answer succeeds for a fill_blank or short_answer  *)
(* question, the isCorrect it reports is true if and only if the answer   *)
(* and the question's correctAnswer, both without surrounding white space,*)
(* are equal up to the case of their letters.                              *)
(***************************************************************************)
C12_TextAnswerTrimmedLowerCased ==
  (SubmitAnswered /\ lastResp.question.type \in {"fill_blank", "short_answer"})
  => (lastResp.isCorrect
      <=> SameUpToCase(WithoutMargins(lastResp.answer),
                       WithoutMargins(lastResp.question.correctAnswer[1])))

\* scenario C: " canberra " was submitted for "Canberra" and reported correct
C12_Witness ==
  /\ SubmitAnswered
  /\ lastResp.question.type = "short_answer"
  /\ lastResp.question.correctAnswer = Some(Canberra)
  /\ lastResp.answer = CanberraPadded
  /\ lastResp.isCorrect
  /\ lastResp.points = lastResp.question.points

(***************************************************************************)
(* Vocabulary of the statistics properties.                                *)
(***************************************************************************)
\* r is num / den rounded to the nearest integer, halves upwards
RoundsTo(r, num, den) ==
  /\ den > 0
  /\ 2 * r * den - den <= 2 * num
  /\ 2 * num < 2 * r * den + den

\* the statistics fields stats are those of a test with this passingScore
\* whose attempts have the scores listed
StatisticsOfScores(stats, scores, passingScore) ==
  LET n == Len(scores)
      passed == Cardinality({i \in DOMAIN scores : scores[i] >= passingScore})
  IN IF n = 0
     THEN stats.totalAttempts = 0 /\ stats.averageScore = 0 /\ stats.passRate = 0
     ELSE /\ stats.totalAttempts = n
          /\ RoundsTo(stats.averageScore, Sum(scores), n)
          /\ RoundsTo(stats.passRate, 100 * passed, n)

\* the scores of the stored attempts of test t, whatever their status
RECURSIVE ScoresOfTest(_, _)
ScoresOfTest(docs, t) ==
  IF docs = << >> THEN << >>
  ELSE (IF docs[1].test = t THEN << docs[1].score >> ELSE << >>)
       \o ScoresOfTest(Tail(docs), t)

\* the last step answered a finish request with success
FinishAnswered == lastResp.op = "finish" /\ lastResp.status = 200

(***************************************************************************)
(* C13: whenever a finish request is answered with success, the attempt   *)
(* is stored with status completed and completedAt set, and the stored    *)
(* totalAttempts, averageScore and passRate of its test are the ones      *)
(* computed from the attempts of that test stored at that moment.         *)
(* Refuted: an attempt another request persists between the read of       *)
(* calculateStatistics and the response is not counted.                    *)
(***************************************************************************)
C13_FinishLeavesStatisticsCurrent ==
  FinishAnswered =>
    LET a == attempts[lastResp.attemptId]
    IN /\ a.status = "completed"
       /\ a.completedAt # None
       /\ a.test \in StoredTests
       /\ StatisticsOfScores(Val(tests[a.test]), ScoresOfTest(attempts, a.test),
                             Val(tests[a.test]).settings.passingScore)

(***************************************************************************)
(* SpecFinish: students, the admin and the instructor send start,         *)
(* submit-answer and finish requests, one at a time, on a test created    *)
(* with one of several passing scores.                                     *)
(***************************************************************************)
PassingScores == {0, 50, 100}

BodyPassing(qs, m, passingScore) ==
  [Body(qs, m, TRUE, None, None) EXCEPT !.settings.passingScore = passingScore]

CreateBodiesFinish ==
  {BodyPassing(<< QParis >>, MaxAttemptsInput, ps) : ps \in PassingScores}

CallersFinish == {"s1", "s2", "adm", "t1"}

NextFinish ==
  \/ \E body \in CreateBodiesFinish : CreateBegin("p1", "t1", body)
  \/ CreateFindCourse("p1")
  \/ CreateSave("p1")
  \/ \E u \in CallersFinish, t \in TestIds : StartBegin("p1", u, t)
  \/ StartFindTest("p1")
  \/ StartFindEnrollment("p1")
  \/ StartFindAttempts("p1")
  \/ StartFindInProgress("p1")
  \/ StartSave("p1")
  \/ \E u \in CallersFinish, aid \in 1..MaxDocs :
       SubmitBegin("p1", u, aid, "q1", Paris)
  \/ SubmitFindAttempt("p1")
  \/ SubmitFindTest("p1")
  \/ SubmitSave("p1")
  \/ \E u \in CallersFinish, aid \in 1..MaxDocs : FinishBegin("p1", u, aid)
  \/ FinishFindAttempt("p1")
  \/ FinishSave("p1")
  \/ FinishFindTest("p1")
  \/ FinishStatsFind("p1")
  \/ FinishStatsSave("p1")

SpecFinish == Init /\ [][NextFinish]_vars

(***************************************************************************)
(* C14: in every successful finish response, the isPassed of the response *)
(* and the isPassed inside its attempt summary are both true exactly when *)
(* the attempt's score is at least the settings.passingScore of its test. *)
(* Refuted: getSummary compares the score with 60, whatever the test's    *)
(* passingScore.                                                           *)
(***************************************************************************)
C14_IsPassedFollowsPassingScore ==
  (FinishAnswered /\ attempts[lastResp.attemptId].test \in StoredTests) =>
    LET a == attempts[lastResp.attemptId]
        passed == a.score >= Val(tests[a.test]).settings.passingScore
    IN /\ lastResp.attempt.score = a.score
       /\ lastResp.isPassed <=> passed
       /\ lastResp.attempt.isPassed <=> passed

\* score lists for calculateStatistics: up to MaxDocs attempts
ScoreLists == UNION {[1..n -> {0, 25, 50, 100}] : n \in 0..MaxDocs}

(***************************************************************************)
(* C15: calculateStatistics assigns totalAttempts the number of attempts  *)
(* of the test (in any status), averageScore the rounded mean of their    *)
(* scores and passRate the rounded percentage of those with score >=      *)
(* settings.passingScore, and 0 to all three when there is no attempt:    *)
(* for every list of scores, for the attempts stored when a finish        *)
(* request recomputes, and the values are the ones its save stores.       *)
(***************************************************************************)
C15_RecomputeFromAllAttempts ==
  /\ [](\A ps \in PassingScores : \A scores \in ScoreLists :
          StatisticsOfScores(
            StatisticsOf([settings |-> [passingScore |-> ps]],
                         [i \in DOMAIN scores |-> [score |-> scores[i]]]),
            scores, ps))
  /\ [][\A p \in Procs :
          (req[p].op = "finish" /\ req'[p] # req[p]) =>
            /\ req[p].pc = "statsFind" =>
                 StatisticsOfScores(req'[p].stats,
                                    ScoresOfTest(attempts, req[p].attempt.test),
                                    req[p].testDoc.settings.passingScore)
            /\ (req[p].pc = "statsSave" /\ lastResp'.status = 200) =>
                 LET stored == Val(tests'[req[p].attempt.test])
                 IN /\ stored.totalAttempts = req[p].stats.totalAttempts
                    /\ stored.averageScore = req[p].stats.averageScore
                    /\ stored.passRate = req[p].stats.passRate]_vars

\* a finish request stored the statistics of two attempts, one of them still
\* in progress, all passing a passingScore of 0
C15_Witness ==
  /\ FinishAnswered
  /\ \E t \in StoredTests :
       /\ Val(tests[t]).totalAttempts = 2
       /\ Val(tests[t]).passRate = 100
       /\ Val(tests[t]).averageScore = 0
       /\ \E i \in DOMAIN attempts : attempts[i].test = t /\ attempts[i].status = "in_progress"

(***************************************************************************)
(* Vocabulary of the ownership and state properties.                       *)
(***************************************************************************)
\* request slot p takes a step of a submit-answer or finish request
AnswerOrFinishStep(p) ==
  req[p].op \in {"submit", "finish"} /\ req'[p] # req[p]

MsgNotOwner(op) ==
  IF op = "submit" THEN "Not authorized to submit answer for this attempt"
  ELSE "Not authorized to finish this attempt"

MsgNotInProgress == "Test attempt is not in progress"

\* the step refuses the request of slot p and changes no attempt and no test
Refused(p, status, message) ==
  /\ lastResp' = Resp(req[p].op, req[p].user, status, message)
  /\ attempts' = attempts
  /\ tests' = tests

(***************************************************************************)
(* C16: a submit-answer or finish request changes an attempt only if the  *)
(* caller is the student of the attempt and the attempt is stored with    *)
(* status in_progress; a request of another caller is refused with the    *)
(* not-authorized answer and one on an attempt that is not in progress    *)
(* with "Test attempt is not in progress", attempts and tests unchanged.  *)
(* Refuted: of two submit-answer requests that both loaded the attempt in *)
(* progress, the second saves into the attempt the first one completed.   *)
(***************************************************************************)
C16_OnlyOwnerOnlyInProgress ==
  [][\A p \in Procs :
       AnswerOrFinishStep(p) =>
         /\ \A i \in DOMAIN attempts :
              attempts'[i] # attempts[i] =>
                /\ req[p].user = attempts[i].student
                /\ attempts[i].status = "in_progress"
         /\ (req[p].pc = "findAttempt" /\ req[p].attemptId \in DOMAIN attempts) =>
              LET a == attempts[req[p].attemptId]
              IN /\ a.student # req[p].user => Refused(p, 403, MsgNotOwner(req[p].op))
                 /\ (a.student = req[p].user /\ a.status # "in_progress")
                      => Refused(p, 400, MsgNotInProgress)]_vars

(***************************************************************************)
(* SpecDelete: the instructor may delete the test while a student starts, *)
(* answers and finishes attempts; requests run one at a time.             *)
(***************************************************************************)
CallersDelete == {"t1", "adm", "s1"}

NextDelete ==
  \/ \E m \in 1..MaxAttemptsInput :
       CreateBegin("p1", "t1", Body(<< QParis >>, m, TRUE, None, None))
  \/ CreateFindCourse("p1")
  \/ CreateSave("p1")
  \/ \E u \in CallersDelete, t \in TestIds : DeleteBegin("p1", u, t)
  \/ DeleteFindTest("p1")
  \/ DeleteWrite("p1")
  \/ \E t \in TestIds : StartBegin("p1", "s1", t)
  \/ StartFindTest("p1")
  \/ StartFindEnrollment("p1")
  \/ StartFindAttempts("p1")
  \/ StartFindInProgress("p1")
  \/ StartSave("p1")
  \/ \E aid \in 1..MaxDocs, answer \in Answers : SubmitBegin("p1", "s1", aid, "q1", answer)
  \/ SubmitFindAttempt("p1")
  \/ SubmitFindTest("p1")
  \/ SubmitSave("p1")
  \/ \E aid \in 1..MaxDocs : FinishBegin("p1", "s1", aid)
  \/ FinishFindAttempt("p1")
  \/ FinishSave("p1")
  \/ FinishFindTest("p1")
  \/ FinishStatsFind("p1")
  \/ FinishStatsSave("p1")

SpecDelete == Init /\ [][NextDelete]_vars

\* request slot p takes a step of a start, submit-answer or finish request
\* that answers the caller with an error
AttemptRequestFails(p) ==
  /\ req[p].op \in {"start", "submit", "finish"}
  /\ req'[p] = Idle
  /\ lastResp'.status >= 400

(***************************************************************************)
(* C17: when a start, submit-answer or finish request answers with an     *)
(* error, at whatever step, the attempts and the tests are stored as they *)
(* were when the request arrived; so an attempt a failed finish request   *)
(* loaded in progress is still in progress.                                *)
(* Refuted: finish saves the attempt as completed before it looks up the  *)
(* test, and answers 500 when the test has been deleted.                   *)
(***************************************************************************)
C17_ErrorLeavesNoPartialMutation ==
  [][\A p \in Procs :
       AttemptRequestFails(p) =>
         /\ attempts' = attempts
         /\ tests' = tests
         /\ req[p].pc \notin {"findAttempt", "findEnrollment", "findAttempts",
                               "findInProgress"} /\ req[p].op # "start"
              => attempts[req[p].attemptId] = req[p].loaded]_vars

(***************************************************************************)
(* SpecCreate: the instructor, an unverified teacher, the admin and a     *)
(* student post tests whose question lists are valid or invalid in        *)
(* several ways, and update and delete the test, one request at a time.   *)
(***************************************************************************)
Blank == << " ", " " >>

\* no question text but white space
QNoText == [QParis EXCEPT !.question = Blank]

QOneOption == [QParis EXCEPT !.options = << [text |-> Paris, isCorrect |-> TRUE] >>]

QNoCorrect ==
  [QParis EXCEPT !.options = << [text |-> Paris, isCorrect |-> FALSE],
                                [text |-> London, isCorrect |-> FALSE] >>]

\* questions sent without a type
QUntyped == [QParis EXCEPT !.type = "undefined"]

QUntypedNoOptions == [QParis EXCEPT !.type = "undefined", !.options = << >>]

\* a short_answer question sent without correctAnswer
QShortNoAnswer == [QParis EXCEPT !.type = "short_answer", !.options = << >>]

QuestionListsCreate ==
  {<< >>, << QParis >>, << QNoText >>, << QOneOption >>, << QNoCorrect >>,
   << QUntyped >>, << QUntypedNoOptions >>, << QCanberra >>, << QShortNoAnswer >>,
   << QParis, QCanberra >>, << QParis, QNoCorrect >>}

CreateBodiesCreate ==
  {Body(qs, m, TRUE, None, None) : qs \in QuestionListsCreate, m \in 1..MaxAttemptsInput}

CallersCreate == {"t1", "t2", "adm", "s1"}

NextCreate ==
  \/ \E u \in CallersCreate, body \in CreateBodiesCreate : CreateBegin("p1", u, body)
  \/ CreateFindCourse("p1")
  \/ CreateSave("p1")
  \/ \E u \in CallersCreate, t \in TestIds, patch \in UpdateBodies :
       UpdateBegin("p1", u, t, patch)
  \/ UpdateFindTest("p1")
  \/ UpdateWrite("p1")
  \/ \E u \in CallersCreate, t \in TestIds : DeleteBegin("p1", u, t)
  \/ DeleteFindTest("p1")
  \/ DeleteWrite("p1")

SpecCreate == Init /\ [][NextCreate]_vars

\* the caller the spec lets create tests for course c
MayCreateFor(u, c) == u = CourseInstructor(c) \/ u \in Admins

\* the conditions on the questions of a test, for the questions as stored
QuestionsWellFormed(questions) ==
  /\ Len(questions) >= 1
  /\ \A i \in DOMAIN questions :
       LET q == questions[i]
       IN /\ WithoutMargins(q.question) # << >>
          /\ q.type \in {"multiple_choice", "undefined"} =>
               /\ Len(q.options) >= 2
               /\ \E k \in DOMAIN q.options : q.options[k].isCorrect

\* request slot p takes the step that answers its create request
CreateAnswered(p) == req[p].op = "create" /\ req'[p] = Idle

(***************************************************************************)
(* C18: a create request with well-formed questions is answered 201 when  *)
(* the caller is the instructor of the course or an admin; every create   *)
(* request of another caller is answered 403 and stores no test; and the  *)
(* instructor of a stored test is the caller who created it.               *)
(* Refuted: an admin who is not the instructor of the course is answered  *)
(* 403.                                                                     *)
(***************************************************************************)
C18_InstructorOrAdminCreates ==
  [][/\ \A p \in Procs :
          CreateAnswered(p) =>
            /\ (MayCreateFor(req[p].user, req[p].body.course)
                /\ QuestionsWellFormed(req[p].body.questions)
                /\ \A i \in DOMAIN req[p].body.questions :
                     req[p].body.questions[i].type \in {"fill_blank", "short_answer"}
                       => req[p].body.questions[i].correctAnswer # None)
               => /\ lastResp'.status = 201
                  /\ tests' = Append(tests, tests'[Len(tests')])
                  /\ tests'[Len(tests')][1].instructor = req[p].user
            /\ ~MayCreateFor(req[p].user, req[p].body.course)
               => lastResp'.status = 403 /\ tests' = tests
     /\ (lastResp'.op = "create" /\ lastResp' # lastResp
         /\ ~MayCreateFor(lastResp'.user, "c1"))
        => lastResp'.status = 403 /\ tests' = tests]_vars

(***************************************************************************)
(* C19: every stored test has at least one question, every question has  *)
(* text, and every question stored as multiple_choice, those sent without *)
(* a type included, has at least 2 options and at least 1 correct option; *)
(* a create request of the course's instructor whose questions are not    *)
(* so is answered 400 and stores nothing.                                  *)
(* Refuted: the handler checks the options only when the body says        *)
(* type = multiple_choice, and the schema then defaults a missing type to *)
(* multiple_choice.                                                        *)
(***************************************************************************)
C19_OnlyWellFormedTestsPersist ==
  /\ [](\A t \in StoredTests : QuestionsWellFormed(Val(tests[t]).questions))
  /\ [][\A p \in Procs :
          (/\ CreateAnswered(p)
           /\ req[p].user = CourseInstructor(req[p].body.course)
           /\ ~QuestionsWellFormed(req[p].body.questions))
          => lastResp'.status = 400 /\ tests' = tests]_vars

\* the statuses the spec calls terminal
TerminalStatuses == {"completed", "abandoned", "timeout"}

(***************************************************************************)
(* C20: no step of a start, submit-answer or finish request, recompute    *)
(* of the statistics included, changes the status of an attempt stored    *)
(* as completed, abandoned or timeout, also when requests interleave; and *)
(* calculateScore, submitAnswer and the pre-save hook leave each of these *)
(* statuses as it is.                                                      *)
(***************************************************************************)
C20_TerminalStatusStays ==
  /\ [](\A i \in DOMAIN attempts : \A st \in TerminalStatuses :
          LET a == [attempts[i] EXCEPT !.status = st]
          IN /\ calculateScore(a, now).status = st
             /\ submitAnswer(a, "q1", Paris, now).status = st
             /\ preSave(a, now).status = st)
  /\ [][\A i \in DOMAIN attempts :
          attempts[i].status \in TerminalStatuses
            => attempts'[i].status = attempts[i].status]_vars

\* a finish request for a completed attempt was refused, and a request that
\* loaded the attempt in progress has saved into it since it was completed
C20_Witness ==
  /\ lastResp = Resp("finish", "s1", 400, MsgNotInProgress)
  /\ \E i \in DOMAIN attempts :
       /\ attempts[i].status = "completed"
       /\ Len(attempts[i].answers) >= 2

(***************************************************************************)
(* C21: after every successful submit-answer, the attempt's answers       *)
(* entry of the question stores the isCorrect and points values the       *)
(* response returns (points = question.points when correct, else 0), and  *)
(* the attempt's totalPoints, earnedPoints and score are computed from    *)
(* them.  Refuted: submitAnswer is not given the graded values, the       *)
(* stored entry keeps isCorrect = false and points = 0.                   *)
(***************************************************************************)
C21_StoredEntryHoldsGrading ==
  SubmitAnswered
  => LET a == attempts[lastResp.attemptId]
     IN /\ lastResp.points = GradePoints(lastResp.question, lastResp.isCorrect)
        /\ \E k \in DOMAIN a.answers :
             /\ a.answers[k].question = lastResp.question.id
             /\ a.answers[k].isCorrect = lastResp.isCorrect
             /\ a.answers[k].points = lastResp.points
        /\ a.earnedPoints >= lastResp.points
        /\ lastResp.isCorrect => a.score > 0

(***************************************************************************)
(* C22: the save of a successful submit-answer leaves the attempt         *)
(* completed, with completedAt and timeSpent stamped by the score         *)
(* recomputation; so every stored attempt that holds an answer has a      *)
(* status other than in_progress, and a submit-answer or finish request   *)
(* that reads such an attempt changes nothing and is refused: "Test       *)
(* attempt is not in progress" for the attempt's student (any other       *)
(* caller is refused before the status is looked at).                     *)
(***************************************************************************)
C22_AnswerCompletesAttempt ==
  /\ [](\A i \in DOMAIN attempts :
          Len(attempts[i].answers) >= 1 =>
            /\ attempts[i].status # "in_progress"
            /\ IsSet(attempts[i].completedAt)
            /\ attempts[i].timeSpent = Val(attempts[i].completedAt) - attempts[i].startedAt)
  /\ [][\A p \in Procs :
          /\ (req[p].op = "submit" /\ req[p].pc = "save" /\ req'[p] # req[p]) =>
               /\ lastResp'.status = 200
               /\ attempts'[req[p].attemptId].status = "completed"
               /\ Len(attempts'[req[p].attemptId].answers) >= 1
          /\ (/\ AnswerOrFinishStep(p) /\ req[p].pc = "findAttempt"
              /\ req[p].attemptId \in DOMAIN attempts
              /\ Len(attempts[req[p].attemptId].answers) >= 1) =>
               IF attempts[req[p].attemptId].student = req[p].user
               THEN Refused(p, 400, MsgNotInProgress)
               ELSE Refused(p, 403, MsgNotOwner(req[p].op))]_vars

\* a finish request on an attempt that an answer completed was just refused
C22_Witness ==
  /\ lastResp = Resp("finish", "s1", 400, MsgNotInProgress)
  /\ \E i \in DOMAIN attempts :
       /\ attempts[i].status = "completed"
       /\ Len(attempts[i].answers) = 1
       /\ \A j \in DOMAIN attempts : j # i => attempts[j].status = "in_progress"

(***************************************************************************)
(* C23: every stored attempt holds at most one answers entry per question *)
(* id, also when two submit-answer requests for the same question of the  *)
(* same attempt both load the attempt before either saves.  Refuted: both *)
(* requests find no entry for the question in their copy, both push one,  *)
(* and both saves append to the stored array.                              *)
(***************************************************************************)
C23_OneEntryPerQuestion ==
  \A i \in DOMAIN attempts :
    \A k, l \in DOMAIN attempts[i].answers :
      attempts[i].answers[k].question = attempts[i].answers[l].question => k = l

\* the answer of the start handler's catch block, sent for every thrown error
MsgServerErrorStart == "Server error starting test"

\* the attempt the start request of slot p is about to insert collides with
\* a stored one on {student, test, attemptNumber}
StartCollides(p) ==
  /\ req[p].op = "start" /\ req[p].pc = "save"
  /\ \E i \in DOMAIN attempts :
       /\ attempts[i].student = req[p].user
       /\ attempts[i].test = req[p].test
       /\ attempts[i].attemptNumber = NextAttemptNumber(req[p].existingCount)

(***************************************************************************)
(* C24: when a start request loses the race for an attempt number (its    *)
(* insert collides with the attempt a concurrent start of the same        *)
(* student and test stored), it persists no attempt and its answer is a   *)
(* state-conflict error, distinguishable from a server failure.  Refuted: *)
(* the duplicate-key error is caught by the handler's catch block, which  *)
(* answers 500 "Server error starting test" as for any thrown error.      *)
(***************************************************************************)
C24_CollisionReportedAsConflict ==
  [][\A p \in Procs :
       (StartCollides(p) /\ req'[p] # req[p]) =>
         /\ attempts' = attempts
         /\ lastResp'.status # 500
         /\ lastResp'.message # MsgServerErrorStart]_vars

(***************************************************************************)
(* SpecOwner: the instructor updates the test with bodies that carry      *)
(* settings, an instructor id or a course id, while a student starts,     *)
(* answers and finishes attempts; requests run one at a time.             *)
(***************************************************************************)
\* PUT bodies {instructor: ...} and {course: ...}
OwnerPatch(u) == [top |-> [instructor |-> u], settings |-> NoPaths]

CoursePatch(c) == [top |-> [course |-> c], settings |-> NoPaths]

UpdateBodiesOwner ==
  UpdateBodies \cup {OwnerPatch(u) : u \in Teachers} \cup {CoursePatch("c2")}

NextOwner ==
  \/ \E body \in CreateBodies : CreateBegin("p1", "t1", body)
  \/ CreateFindCourse("p1")
  \/ CreateSave("p1")
  \/ \E u \in Teachers, t \in TestIds, patch \in UpdateBodiesOwner :
       UpdateBegin("p1", u, t, patch)
  \/ UpdateFindTest("p1")
  \/ UpdateWrite("p1")
  \/ \E t \in TestIds : StartBegin("p1", "s1", t)
  \/ StartFindTest("p1")
  \/ StartFindEnrollment("p1")
  \/ StartFindAttempts("p1")
  \/ StartFindInProgress("p1")
  \/ StartSave("p1")
  \/ \E aid \in 1..MaxDocs : SubmitBegin("p1", "s1", aid, "q1", Paris)
  \/ SubmitFindAttempt("p1")
  \/ SubmitFindTest("p1")
  \/ SubmitSave("p1")
  \/ \E aid \in 1..MaxDocs : FinishBegin("p1", "s1", aid)
  \/ FinishFindAttempt("p1")
  \/ FinishSave("p1")
  \/ FinishFindTest("p1")
  \/ FinishStatsFind("p1")
  \/ FinishStatsSave("p1")

SpecOwner == Init /\ [][NextOwner]_vars

(***************************************************************************)
(* C25: the course id and the instructor id of a stored test never        *)
(* change, whatever update, start, submit-answer and finish requests      *)
(* (with their statistics recomputation) run.  Refuted: PUT /:id hands    *)
(* the request body to findByIdAndUpdate, so a body that carries          *)
(* instructor or course rewrites them.                                     *)
(***************************************************************************)
C25_OwnersNeverChange ==
  [][\A t \in DOMAIN tests :
       (t \in DOMAIN tests' /\ IsSet(tests[t]) /\ IsSet(tests'[t])) =>
         /\ Val(tests'[t]).course = Val(tests[t]).course
         /\ Val(tests'[t]).instructor = Val(tests[t]).instructor]_vars

(***************************************************************************)
(* C26: for every student and test, the attemptNumber values of the n     *)
(* stored attempts of the pair are exactly 1..n, without gap and without  *)
(* repetition, under every interleaving of start, submit-answer and       *)
(* finish requests.                                                        *)
(***************************************************************************)
C26_AttemptNumbersContiguous ==
  \A s \in Users : \A t \in TestIds :
    LET docs == AttemptsOfPair(s, t)
    IN /\ {attempts[i].attemptNumber : i \in docs} = 1..Cardinality(docs)
       /\ \A i, j \in docs :
            attempts[i].attemptNumber = attempts[j].attemptNumber => i = j

\* the second attempt of a student was just started, after an answer
\* completed the first
C26_Witness ==
  /\ lastResp.op = "start" /\ lastResp.status = 200
  /\ lastResp.attempt.attemptNumber = 2
  /\ \E i \in AttemptsOfPair(lastResp.user, lastResp.test) :
       /\ attempts[i].attemptNumber = 1
       /\ attempts[i].status = "completed"
       /\ Len(attempts[i].answers) = 1

(***************************************************************************)
(* The payments router: Payment documents, the Course fields it reads and *)
(* writes, and the Enrollment unique index.                                *)
(***************************************************************************)
\* the fields of course c that no route here writes
CourseFields(c) == [id |-> c, price |-> 2, isPublished |-> TRUE, isApproved |-> TRUE]

\* Course.findById in the payments router
CourseDocFindById(c) ==
  IF c \in Courses THEN Some(CourseFields(c) @@ courseDocs[c]) ELSE None

\* Payment.findById
PaymentFindById(id) == IF id \in DOMAIN payments THEN Some(payments[id]) ELSE None

\* new Payment({user, type: 'course_purchase', amount, course, ...}) with the
\* schema defaults
NewPayment(u, c, amount) ==
  [user |-> u, type |-> "course_purchase", amount |-> amount, status |-> "pending",
   course |-> c, refund |-> None, platformFee |-> 0, instructorFee |-> 0]

\* paymentSchema.pre('save'): the fee split of a course purchase
paymentPreSave(pm) ==
  IF pm.type = "course_purchase"
  THEN [pm EXCEPT !.platformFee = Round(pm.amount, 5),
                  !.instructorFee = pm.amount - Round(pm.amount, 5)]
  ELSE pm

\* the conditions under which processRefund throws
RefundThrows(pm, amount) ==
  pm.status # "completed" \/ amount > pm.amount

\* paymentSchema.methods.processRefund, past its checks
processRefund(pm, amount) ==
  [pm EXCEPT !.refund = Some(amount), !.status = "refunded"]

\* document.save() of a loaded Payment: the modified paths are written
SavePayment(stored, loaded, local) ==
  [stored EXCEPT
     !.status = IF local.status # loaded.status THEN local.status ELSE @,
     !.refund = IF local.refund # loaded.refund THEN local.refund ELSE @,
     !.platformFee = IF local.platformFee # loaded.platformFee THEN local.platformFee ELSE @,
     !.instructorFee = IF local.instructorFee # loaded.instructorFee
                       THEN local.instructorFee ELSE @]

\* the unique index {student, course} of the Enrollment collection
EnrollmentIndexAllows(doc) ==
  ~\E e \in enrollments : e.student = doc.student /\ e.course = doc.course

\* Enrollment.findOne({payment, status: 'active'})
FindActiveEnrollmentOfPayment(pid) ==
  {e \in enrollments : e.payment = pid /\ e.status = "active"}

\* document.save() of a loaded Course: the two counters the handler assigned
SaveCourse(stored, loaded, local) ==
  [stored EXCEPT
     !.enrollmentCount = IF local.enrollmentCount # loaded.enrollmentCount
                         THEN local.enrollmentCount ELSE @,
     !.totalRevenue = IF local.totalRevenue # loaded.totalRevenue
                      THEN local.totalRevenue ELSE @]

MaxOf(a, b) == IF a >= b THEN a ELSE b

\* the state the payments and attendance routers leave alone
testCollections == << tests, attempts, now, attendances >>

(***************************************************************************)
(* POST /api/payments/create-order                                         *)
(***************************************************************************)
\* the request arrives: auth, the validator chain, the role check
OrderBegin(p, u, c) ==
  /\ req[p] = Idle
  /\ Len(payments) + InFlight("order") < MaxDocs
  /\ IF Role(u) # "student"
     THEN Respond(p, Resp("order", u, 403, "Only students can purchase courses"))
     ELSE Continue(p, [op |-> "order", pc |-> "findCourse", user |-> u, course |-> c])
  /\ UNCHANGED << payments, courseDocs, enrolledCourses, enrollments, testCollections >>

\* Course.findById and the availability check
OrderFindCourse(p) ==
  /\ req[p].op = "order" /\ req[p].pc = "findCourse"
  /\ LET r == req[p]
         course == CourseDocFindById(r.course)
     IN IF ~IsSet(course)
        THEN Respond(p, Resp("order", r.user, 404, "Course not found"))
        ELSE IF ~Val(course).isPublished \/ ~Val(course).isApproved
        THEN Respond(p, Resp("order", r.user, 400, "Course is not available for purchase"))
        ELSE Continue(p, [r EXCEPT !.pc = "findEnrollment"] @@ [price |-> Val(course).price])
  /\ UNCHANGED << payments, courseDocs, enrolledCourses, enrollments, testCollections >>

\* Enrollment.findOne({student, course, status: 'active'})
OrderFindEnrollment(p) ==
  /\ req[p].op = "order" /\ req[p].pc = "findEnrollment"
  /\ LET r == req[p]
     IN IF FindActiveEnrollment(r.user, r.course) # {}
        THEN Respond(p, Resp("order", r.user, 400, "You are already enrolled in this course"))
        ELSE Continue(p, [r EXCEPT !.pc = "save"])
  /\ UNCHANGED << payments, courseDocs, enrolledCourses, enrollments, testCollections >>

\* payment.save() and the response
OrderSave(p) ==
  /\ req[p].op = "order" /\ req[p].pc = "save"
  /\ LET r == req[p]
     IN /\ payments' = Append(payments, paymentPreSave(NewPayment(r.user, r.course, r.price)))
        /\ Respond(p, [paymentId |-> Len(payments) + 1]
                      @@ Resp("order", r.user, 200, "Payment order created successfully"))
  /\ UNCHANGED << courseDocs, enrolledCourses, enrollments, testCollections >>

(***************************************************************************)
(* POST /api/payments/verify                                               *)
(***************************************************************************)
\* the request arrives: auth, the validator chain
VerifyBegin(p, u, pid) ==
  /\ req[p] = Idle
  /\ Continue(p, [op |-> "verify", pc |-> "findPayment", user |-> u, paymentId |-> pid])
  /\ UNCHANGED << payments, courseDocs, enrolledCourses, enrollments, testCollections >>

\* Payment.findById, the ownership check, the already-completed check, then
\* the handler sets status = 'completed' (and the pre-save hook runs)
VerifyFindPayment(p) ==
  /\ req[p].op = "verify" /\ req[p].pc = "findPayment"
  /\ LET r == req[p]
         payment == PaymentFindById(r.paymentId)
     IN IF ~IsSet(payment)
        THEN Respond(p, Resp("verify", r.user, 404, "Payment not found"))
        ELSE IF Val(payment).user # r.user
        THEN Respond(p, Resp("verify", r.user, 403, "Not authorized to verify this payment"))
        ELSE IF Val(payment).status = "completed"
        THEN Respond(p, Resp("verify", r.user, 400, "Payment already completed"))
        ELSE Continue(p, [r EXCEPT !.pc = "savePayment"]
                         @@ [loaded |-> Val(payment),
                             payment |-> paymentPreSave([Val(payment) EXCEPT
                                                           !.status = "completed"])])
  /\ UNCHANGED << payments, courseDocs, enrolledCourses, enrollments, testCollections >>

\* payment.save()
VerifySavePayment(p) ==
  /\ req[p].op = "verify" /\ req[p].pc = "savePayment"
  /\ LET r == req[p]
     IN /\ payments' = [payments EXCEPT ![r.paymentId] = SavePayment(@, r.loaded, r.payment)]
        /\ Continue(p, [r EXCEPT !.pc = "saveEnrollment"])
  /\ UNCHANGED << courseDocs, enrolledCourses, enrollments, testCollections >>

\* new Enrollment({student, course, payment, status: 'active'}).save(); a
\* duplicate {student, course} throws and the catch block answers 500
VerifySaveEnrollment(p) ==
  /\ req[p].op = "verify" /\ req[p].pc = "saveEnrollment"
  /\ LET r == req[p]
         enrollment == [student |-> r.user, course |-> r.payment.course,
                        payment |-> r.paymentId, status |-> "active"]
     IN IF EnrollmentIndexAllows(enrollment)
        THEN /\ enrollments' = enrollments \cup {enrollment}
             /\ Continue(p, [r EXCEPT !.pc = "findCourse"])
        ELSE /\ enrollments' = enrollments
             /\ Respond(p, [paymentId |-> r.paymentId]
                           @@ Resp("verify", r.user, 500, "Server error verifying payment"))
  /\ UNCHANGED << payments, courseDocs, enrolledCourses, testCollections >>

\* Course.findById(payment.course) and the two increments
VerifyFindCourse(p) ==
  /\ req[p].op = "verify" /\ req[p].pc = "findCourse"
  /\ LET r == req[p]
         course == CourseDocFindById(r.payment.course)
     IN IF ~IsSet(course)
        THEN Continue(p, [r EXCEPT !.pc = "pushUser"])
        ELSE Continue(p, [r EXCEPT !.pc = "saveCourse"]
                         @@ [courseLoaded |-> courseDocs[r.payment.course],
                             courseLocal |->
                               [enrollmentCount |-> Val(course).enrollmentCount + 1,
                                totalRevenue |-> Val(course).totalRevenue + r.payment.amount]])
  /\ UNCHANGED << payments, courseDocs, enrolledCourses, enrollments, testCollections >>

\* course.save()
VerifySaveCourse(p) ==
  /\ req[p].op = "verify" /\ req[p].pc = "saveCourse"
  /\ LET r == req[p]
     IN /\ courseDocs' = [courseDocs EXCEPT ![r.payment.course] =
                            SaveCourse(@, r.courseLoaded, r.courseLocal)]
        /\ Continue(p, [r EXCEPT !.pc = "pushUser"])
  /\ UNCHANGED << payments, enrolledCourses, enrollments, testCollections >>

\* User.findByIdAndUpdate(req.user.id, {$push: {enrolledCourses}}) and the response
VerifyPushUser(p) ==
  /\ req[p].op = "verify" /\ req[p].pc = "pushUser"
  /\ LET r == req[p]
     IN /\ enrolledCourses' = [enrolledCourses EXCEPT ![r.user] = Append(@, r.payment.course)]
        /\ Respond(p, [paymentId |-> r.paymentId]
                      @@ Resp("verify", r.user, 200,
                              "Payment verified and enrollment completed successfully"))
  /\ UNCHANGED << payments, courseDocs, enrollments, testCollections >>

(***************************************************************************)
(* POST /api/payments/refund                                               *)
(***************************************************************************)
\* the request arrives: auth, adminAuth, the validator chain
RefundBegin(p, u, pid, amount) ==
  /\ req[p] = Idle
  /\ IF Role(u) # "admin"
     THEN Respond(p, Resp("refund", u, 403, "Access denied. Admin privileges required."))
     ELSE IF amount < 0
     THEN Respond(p, Resp("refund", u, 400, "Validation failed"))
     ELSE Continue(p, [op |-> "refund", pc |-> "findPayment", user |-> u,
                       paymentId |-> pid, amount |-> amount])
  /\ UNCHANGED << payments, courseDocs, enrolledCourses, enrollments, testCollections >>

\* Payment.findById, then processRefund up to its save: an error thrown by
\* its checks is answered 500 by the catch block
RefundFindPayment(p) ==
  /\ req[p].op = "refund" /\ req[p].pc = "findPayment"
  /\ LET r == req[p]
         payment == PaymentFindById(r.paymentId)
     IN IF ~IsSet(payment)
        THEN Respond(p, Resp("refund", r.user, 404, "Payment not found"))
        ELSE IF RefundThrows(Val(payment), r.amount)
        THEN Respond(p, Resp("refund", r.user, 500, "Server error processing refund"))
        ELSE Continue(p, [r EXCEPT !.pc = "savePayment"]
                         @@ [loaded |-> Val(payment),
                             payment |-> paymentPreSave(processRefund(Val(payment), r.amount))])
  /\ UNCHANGED << payments, courseDocs, enrolledCourses, enrollments, testCollections >>

\* the save() inside processRefund
RefundSavePayment(p) ==
  /\ req[p].op = "refund" /\ req[p].pc = "savePayment"
  /\ LET r == req[p]
     IN /\ payments' = [payments EXCEPT ![r.paymentId] = SavePayment(@, r.loaded, r.payment)]
        /\ IF r.payment.type = "course_purchase"
           THEN Continue(p, [r EXCEPT !.pc = "findEnrollment"])
           ELSE Respond(p, [paymentId |-> r.paymentId]
                           @@ Resp("refund", r.user, 200, "Refund processed successfully"))
  /\ UNCHANGED << courseDocs, enrolledCourses, enrollments, testCollections >>

\* Enrollment.findOne({payment, status: 'active'})
RefundFindEnrollment(p) ==
  /\ req[p].op = "refund" /\ req[p].pc = "findEnrollment"
  /\ LET r == req[p]
         found == FindActiveEnrollmentOfPayment(r.paymentId)
     IN IF found = {}
        THEN Respond(p, [paymentId |-> r.paymentId]
                        @@ Resp("refund", r.user, 200, "Refund processed successfully"))
        ELSE Continue(p, [r EXCEPT !.pc = "saveEnrollment"]
                         @@ [enrollment |-> CHOOSE e \in found : TRUE])
  /\ UNCHANGED << payments, courseDocs, enrolledCourses, enrollments, testCollections >>

\* enrollment.status = 'cancelled'; enrollment.save()
RefundSaveEnrollment(p) ==
  /\ req[p].op = "refund" /\ req[p].pc = "saveEnrollment"
  /\ LET r == req[p]
     IN /\ enrollments' =
             {IF e.student = r.enrollment.student /\ e.course = r.enrollment.course
              THEN [e EXCEPT !.status = "cancelled"] ELSE e : e \in enrollments}
        /\ Continue(p, [r EXCEPT !.pc = "findCourse"])
  /\ UNCHANGED << payments, courseDocs, enrolledCourses, testCollections >>

\* Course.findById(payment.course) and the two decrements
RefundFindCourse(p) ==
  /\ req[p].op = "refund" /\ req[p].pc = "findCourse"
  /\ LET r == req[p]
         course == CourseDocFindById(r.payment.course)
     IN IF ~IsSet(course)
        THEN Respond(p, [paymentId |-> r.paymentId]
                        @@ Resp("refund", r.user, 200, "Refund processed successfully"))
        ELSE Continue(p, [r EXCEPT !.pc = "saveCourse"]
                         @@ [courseLoaded |-> courseDocs[r.payment.course],
                             courseLocal |->
                               [enrollmentCount |-> MaxOf(0, Val(course).enrollmentCount - 1),
                                totalRevenue |->
                                  MaxOf(0, Val(course).totalRevenue - r.amount)]])
  /\ UNCHANGED << payments, courseDocs, enrolledCourses, enrollments, testCollections >>

\* course.save() and the response
RefundSaveCourse(p) ==
  /\ req[p].op = "refund" /\ req[p].pc = "saveCourse"
  /\ LET r == req[p]
     IN /\ courseDocs' = [courseDocs EXCEPT ![r.payment.course] =
                            SaveCourse(@, r.courseLoaded, r.courseLocal)]
        /\ Respond(p, [paymentId |-> r.paymentId]
                      @@ Resp("refund", r.user, 200, "Refund processed successfully"))
  /\ UNCHANGED << payments, enrolledCourses, enrollments, testCollections >>

(***************************************************************************)
(* SpecPay: a student orders and verifies course purchases while the      *)
(* admin refunds payments; two requests may be in flight.  No enrollment  *)
(* exists at the start: every enrollment comes from a verified payment.   *)
(***************************************************************************)
InitPay ==
  /\ tests = << >>
  /\ attempts = << >>
  /\ enrollments = {}
  /\ now = 0
  /\ req = [p \in Procs |-> Idle]
  /\ lastResp = NoResp
  /\ payments = << >>
  /\ courseDocs = [c \in Courses |-> [enrollmentCount |-> 0, totalRevenue |-> 0]]
  /\ enrolledCourses = [s \in Students |-> << >>]
  /\ attendances = << >>

CallersPay == {"s1", "adm"}

CoursesPay == {"c1", "c2"}

\* refund amounts: a part of the price, the price, more than the price
RefundAmounts == {1, 2, 3}

NextPay ==
  \E p \in Procs :
    \/ \E u \in CallersPay, c \in CoursesPay : OrderBegin(p, u, c)
    \/ OrderFindCourse(p)
    \/ OrderFindEnrollment(p)
    \/ OrderSave(p)
    \/ \E u \in CallersPay, pid \in 1..MaxDocs : VerifyBegin(p, u, pid)
    \/ VerifyFindPayment(p)
    \/ VerifySavePayment(p)
    \/ VerifySaveEnrollment(p)
    \/ VerifyFindCourse(p)
    \/ VerifySaveCourse(p)
    \/ VerifyPushUser(p)
    \/ \E u \in CallersPay, pid \in 1..MaxDocs, amount \in RefundAmounts :
         RefundBegin(p, u, pid, amount)
    \/ RefundFindPayment(p)
    \/ RefundSavePayment(p)
    \/ RefundFindEnrollment(p)
    \/ RefundSaveEnrollment(p)
    \/ RefundFindCourse(p)
    \/ RefundSaveCourse(p)

SpecPay == InitPay /\ [][NextPay]_vars

\* no request is in flight
Quiescent == \A p \in Procs : req[p] = Idle

(***************************************************************************)
(* C27: whenever no request is in flight, every Payment of type           *)
(* course_purchase with status completed is referenced by the payment     *)
(* field of some Enrollment, after any create-order, verify and refund    *)
(* requests.  Refuted: a repurchase after a refund completes the second   *)
(* payment and then fails to insert its enrollment, because the cancelled *)
(* enrollment of the first purchase still occupies {student, course}.     *)
(***************************************************************************)
C27_CompletedPurchaseHasEnrollment ==
  Quiescent =>
    \A i \in DOMAIN payments :
      (payments[i].type = "course_purchase" /\ payments[i].status = "completed")
        => \E e \in enrollments : e.payment = i

(***************************************************************************)
(* C28: a Payment stored with status refunded never gets status           *)
(* completed again, so verify completes a payment at most once.  Refuted: *)
(* verify refuses only a payment whose status is completed; for a         *)
(* refunded payment it sets status = completed again and goes on to       *)
(* insert a second enrollment.                                             *)
(***************************************************************************)
C28_RefundedStaysRefunded ==
  [][\A i \in DOMAIN payments :
       payments[i].status = "refunded" => payments'[i].status # "completed"]_vars

\* slot p takes a step of a refund request
RefundStep(p) == req[p].op = "refund" /\ req'[p] # req[p]

\* the step ends the request of slot p with an error and leaves the payments,
\* the enrollments and the courses' counters as they are
RefundFails(p) ==
  /\ req'[p] = Idle
  /\ lastResp'.op = "refund" /\ lastResp'.status >= 400
  /\ payments' = payments
  /\ enrollments' = enrollments
  /\ courseDocs' = courseDocs

(***************************************************************************)
(* C29: a refund request changes state only when the payment's status is  *)
(* completed and the amount does not exceed the payment's amount, and     *)
(* then the payment becomes refunded; a request that finds the payment    *)
(* missing, not completed, or smaller than the amount fails and leaves    *)
(* the payment, the enrollments and the course's enrollmentCount and      *)
(* totalRevenue unchanged.  Refuted: of two refund requests that both     *)
(* read the payment as completed, the second writes its refund onto the   *)
(* payment the first one already refunded, and is answered with success.  *)
(***************************************************************************)
C29_RefundOnlyOfCompleted ==
  [][\A p \in Procs :
       RefundStep(p) =>
         /\ (/\ req[p].pc = "findPayment"
             /\ \/ req[p].paymentId \notin DOMAIN payments
                \/ payments[req[p].paymentId].status # "completed"
                \/ req[p].amount > payments[req[p].paymentId].amount)
              => RefundFails(p)
         /\ req[p].pc = "savePayment" =>
              /\ payments[req[p].paymentId].status = "completed"
              /\ req[p].amount <= payments[req[p].paymentId].amount
              /\ payments'[req[p].paymentId].status = "refunded"]_vars

(***************************************************************************)
(* POST /api/attendance/mark                                               *)
(***************************************************************************)
\* Attendance.findOne({student, course, lesson})
FindAttendance(s, c, l) ==
  {i \in DOMAIN attendances :
     /\ attendances[i].student = s
     /\ attendances[i].course = c
     /\ attendances[i].lesson = l}

\* the request arrives: auth, the validator chain
MarkBegin(p, u, c, l, status) ==
  /\ req[p] = Idle
  /\ Len(attendances) + InFlight("mark") < MaxDocs
  /\ Continue(p, [op |-> "mark", pc |-> "findEnrollment", user |-> u, course |-> c,
                  lesson |-> l, status |-> status])
  /\ UNCHANGED << tests, attempts, enrollments, now, otherCollections >>

\* Enrollment.findOne({student, course, status: 'active'})
MarkFindEnrollment(p) ==
  /\ req[p].op = "mark" /\ req[p].pc = "findEnrollment"
  /\ LET r == req[p]
     IN IF FindActiveEnrollment(r.user, r.course) = {}
        THEN Respond(p, Resp("mark", r.user, 403,
                             "You must be enrolled in the course to mark attendance"))
        ELSE Continue(p, [r EXCEPT !.pc = "findAttendance"])
  /\ UNCHANGED << tests, attempts, enrollments, now, otherCollections >>

\* Attendance.findOne({student, course, lesson})
MarkFindAttendance(p) ==
  /\ req[p].op = "mark" /\ req[p].pc = "findAttendance"
  /\ LET r == req[p]
     IN IF FindAttendance(r.user, r.course, r.lesson) # {}
        THEN Respond(p, Resp("mark", r.user, 400, "Attendance already marked for this lesson"))
        ELSE Continue(p, [r EXCEPT !.pc = "save"])
  /\ UNCHANGED << tests, attempts, enrollments, now, otherCollections >>

\* new Attendance({...}).save(): the schema declares no index, every insert
\* is accepted
MarkSave(p) ==
  /\ req[p].op = "mark" /\ req[p].pc = "save"
  /\ LET r == req[p]
     IN /\ attendances' = Append(attendances,
                                 [student |-> r.user, course |-> r.course,
                                  lesson |-> r.lesson, status |-> r.status])
        /\ Respond(p, [attendanceId |-> Len(attendances) + 1]
                      @@ Resp("mark", r.user, 201, "Attendance marked successfully"))
  /\ UNCHANGED << tests, attempts, enrollments, now, payments, courseDocs, enrolledCourses >>

(***************************************************************************)
(* SpecAttend: students mark attendance for two lessons of the course;    *)
(* two requests may be in flight.                                          *)
(***************************************************************************)
Lessons == {"l1", "l2"}

AttendanceStatuses == {"present", "late"}

NextAttend ==
  \E p \in Procs :
    \/ \E u \in Students, c \in Courses, l \in Lessons, status \in AttendanceStatuses :
         MarkBegin(p, u, c, l, status)
    \/ MarkFindEnrollment(p)
    \/ MarkFindAttendance(p)
    \/ MarkSave(p)

SpecAttend == Init /\ [][NextAttend]_vars

(***************************************************************************)
(* C30: there is at most one Attendance record per (student, course,      *)
(* lesson), also when two mark requests of a student for the same lesson  *)
(* both run their existence check before either saves.  Refuted: the      *)
(* existence check is the only guard, the collection has no unique index, *)
(* and both requests insert a record.                                      *)
(***************************************************************************)
C30_OneAttendancePerLesson ==
  \A i, j \in DOMAIN attendances :
    (/\ attendances[i].student = attendances[j].student
     /\ attendances[i].course = attendances[j].course
     /\ attendances[i].lesson = attendances[j].lesson) => i = j
====
